---- MODULE Spec2Model ----
(***************************************************************************)
(* MOT update-detection and notification pipeline (citi94/MOT_Check).      *)
(*                                                                         *)
(* The model follows the serverless handlers under netlify/functions:      *)
(*   scheduled-mot-check.js   the hourly batch scheduler                   *)
(*   sendPushNotification.js  the push fan-out                             *)
(*   getPendingNotifications  the poll endpoint (atomic claim-and-clear)   *)
(*   enableNotification.js    subscribe                                    *)
(*   disableNotification.js   unsubscribe                                  *)
(*   checkMotUpdates.js       the on-demand check                          *)
(*   subscribe/unsubscribe push (device subscriptions)                     *)
(*   utils/tokenManager.js    the shared access-token cache                *)
(*   utils/mongodb.js         the cached store connection and its retries  *)
(* and, in the page, services/notificationService.js (UpdatePoller).       *)
(*                                                                         *)
(* Every await on the store, the upstream API or the push transport is a   *)
(* yield point: a handler is a sequence of atomic steps, one per await.    *)
(* Each invocation (scheduler run, poll request, ...) is a one-shot        *)
(* process; the number of invocations is a bound of the model.             *)
(***************************************************************************)
EXTENDS Integers, Sequences, FiniteSets, TLC

\* ------------------------------------------------------------------ bounds

\* Test timestamps are 1..MaxDate, ordered as their completedDate strings
\* parse; Null (0) is JavaScript's null / undefined / missing field.
MaxDate == 2
\* Longest motTests list the upstream API returns.
MaxTests == 2
\* Scheduler invocations, poll requests, on-demand checks, subscribe requests.
NumRuns == 2
NumPollers == 3
NumCheckers == 1
NumEnablers == 2
NumDisablers == 2
\* Devices that may hold a push subscription for the vehicle.
NumDevices == 2
\* Registrations of the batch scenario (SpecBatch).
MaxVehicles == 7

\* Token manager scenario: concurrent getAccessToken calls, the length of a
\* clock tick in milliseconds, and the ticks the scenario runs for.
NumCallers == 4
TickMs == 10000
MaxTicks == 3

\* Latest-test scenario: the longest motTests list and the latest timestamp
\* of the lists getLatestMotTest is applied to.
MaxListLen == 4
MaxStamp == 3

\* Connection scenario: connectToDatabase calls made in one container.
NumConnectors == 2

\* Client scenario: registrations the page polls for, startPolling calls
\* and polls (pollFn runs) made in it.
NumRegs == 2
MaxStarts == 2
MaxPolls == 3

\* Two timestamps fall on the same calendar day when they agree on DayOf.
TicksPerDay == 2

Null == 0
Dates == 1..MaxDate
DateOrNull == 0..MaxDate
Vehicles == 1..MaxVehicles
Devices == 1..NumDevices
Runs == 1..NumRuns
Pollers == 1..NumPollers
Checkers == 1..NumCheckers
Enablers == 1..NumEnablers
Disablers == 1..NumDisablers
Callers == 1..NumCallers
Connectors == 1..NumConnectors
Regs == 1..NumRegs

\* The registration the concurrent scenario (Spec) contends on.
TheReg == 1

Min(a, b) == IF a < b THEN a ELSE b

\* ------------------------------------------------------------ pure helpers

\* new Date(completedDate).getTime(): the timestamp a date string parses to.
\* A date string is represented by the tick it denotes, so parsing reads the
\* tick off; an unparsable string is outside the model.
GetTime(d) == d

DayOf(d) == (d + 1) \div TicksPerDay

\* Every motTests list the upstream API can return (dates only).
RECURSIVE SeqsUpTo(_)
SeqsUpTo(n) ==
    IF n = 0 THEN {<<>>}
    ELSE LET shorter == SeqsUpTo(n - 1)
         IN  shorter \cup {Append(s, d) : s \in {t \in shorter : Len(t) = n - 1}, d \in Dates}
TestLists == SeqsUpTo(MaxTests)

\* Array.prototype.sort with (a, b) => new Date(b) - new Date(a): a stable
\* insertion of each element after the elements that are not smaller.
RECURSIVE InsertDesc(_, _)
InsertDesc(sorted, x) ==
    IF sorted = <<>> THEN <<x>>
    ELSE IF GetTime(Head(sorted)) >= GetTime(x)
         THEN <<Head(sorted)>> \o InsertDesc(Tail(sorted), x)
         ELSE <<x>> \o sorted

RECURSIVE SortDesc(_)
SortDesc(tests) ==
    IF tests = <<>> THEN <<>>
    ELSE InsertDesc(SortDesc(SubSeq(tests, 1, Len(tests) - 1)), tests[Len(tests)])

\* A selection that trusts the upstream order: the first test of the list.
GetFirstMotTest(tests) ==
    IF Len(tests) = 0 THEN Null ELSE tests[1]

\* getLatestMotTest(vehicleData): null for a missing or empty list, else the
\* first element after sorting by completedDate, newest first.
GetLatestMotTest(tests) ==
    IF Len(tests) = 0 THEN Null ELSE SortDesc(tests)[1]

\* A decision that compares calendar days instead of timestamps.
HasUpdateDateOnly(latestMotTestDate, lastMotTestDate) ==
    IF latestMotTestDate # Null
    THEN IF lastMotTestDate = Null
         THEN TRUE
         ELSE DayOf(latestMotTestDate) > DayOf(lastMotTestDate)
    ELSE FALSE

\* The scheduler's update decision (let hasUpdate = false; ...).
HasUpdate(latestMotTestDate, lastMotTestDate) ==
    IF latestMotTestDate # Null
    THEN IF lastMotTestDate = Null
         THEN TRUE
         ELSE GetTime(latestMotTestDate) > GetTime(lastMotTestDate)
    ELSE FALSE

\* ------------------------------------------------------------------ state

VARIABLES
    notifications,  \* 'notifications' collection: registration -> documents, in insertion order
    pushSubs,       \* 'push_subscriptions' collection: <<registration, device>> -> subscription
    lastNotifiedAt, \* its lastNotifiedAt field: 0 for null, else the writes since the subscribe
    pushDocs,       \* its documents per <<registration, device>>: how many the collection holds
    pushResp,       \* the response to the last push subscribe/unsubscribe call per <<registration, device>>
    sched,          \* scheduler invocations: position and locals of each run
    poll,           \* poll requests (getPendingNotifications)
    check,          \* on-demand checks (checkMotUpdates)
    enable,         \* subscribe requests (enableNotification)
    disable,        \* unsubscribe requests (disableNotification)
    pushCount,      \* history: webpush.sendNotification calls per <<device, newDate>>
    detections,     \* history: scheduler writes that set hasUpdate = true
    threw,          \* history: per run, the registrations whose processing threw
    cachedToken,    \* tokenManager: the cached access token (Null, or the number of the exchange that issued it)
    tokenExpiry,    \* tokenManager: the tick the cached token expires at (Null when none)
    tokenRenewalInProgress, \* tokenManager: the renewal flag
    clock,          \* Date.now(), in ticks of TickMs
    issued,         \* history: credential exchanges answered with a token so far
    call,           \* getAccessToken calls: position and locals of each call
    motTests,       \* getLatestMotTest: vehicleData.motTests of the call (<<>> also for a missing list)
    latestMotTest,  \* getLatestMotTest: the returned test, NotReturned before the return
    cachedDb,       \* mongodb utility: the cached connection (Null, or the number of the client behind it)
    uri,            \* mongodb utility: whether process.env.MONGODB_URI is set
    clients,        \* history: MongoClient objects constructed so far
    conn,           \* connectToDatabase calls: position and locals of each call
    intervals,      \* UpdatePoller.intervals: registration -> interval timer (Null when absent)
    errorCounts,    \* UpdatePoller.errorCounts: registration -> count (NoCount when absent)
    started,        \* startPolling calls so far, in order: the closure (pollFn) and the timer of each
    live,           \* interval timers set and not cleared, by the number of their startPolling call
    polls           \* pollFn runs so far, in order: position, outcome and callback invocations

\* The collections and the handlers' invocations.
storeVars == <<notifications, pushSubs, lastNotifiedAt, pushDocs, pushResp, sched, poll, check, enable, disable, pushCount, detections, threw>>

\* The token manager's module state and its calls.
tokenVars == <<cachedToken, tokenExpiry, tokenRenewalInProgress, clock, issued, call>>

\* The argument and the result of a getLatestMotTest call.
latestVars == <<motTests, latestMotTest>>

\* The MongoDB utility's module state and its calls.
connVars == <<cachedDb, uri, clients, conn>>

\* The page's UpdatePoller singleton, its timers and its polls.
clientVars == <<intervals, errorCounts, started, live, polls>>

vars == <<storeVars, tokenVars, latestVars, connVars, clientVars>>

\* updateDetails: the snapshot of the change (dates only); NoDetails is a
\* missing updateDetails field.
NoDetails == [previousDate |-> -1, newDate |-> -1]
Details(prev, new) == [previousDate |-> prev, newDate |-> new]

\* A document of the notifications collection as enableNotification inserts
\* it: no hasUpdate, no updateDetails, no updateDetectedAt and no
\* lastCheckError field yet. A new Date().toISOString() stamp is represented
\* by the handler that took it: "created" (enableNotification), "checked"
\* (checkMotUpdates), "scheduled" (the scheduler). updateDetectedAt, the
\* stamp of the detection write, is the number of that write among the
\* vehicle's detection writes: 0 for one made before the scenario,
\* NotDetected for a missing field.
NotDetected == -1
NewRecord(date) ==
    [lastMotTestDate |-> date, enabled |-> TRUE, hasUpdate |-> FALSE,
     updateDetails |-> NoDetails, lastCheckError |-> FALSE,
     lastCheckedDate |-> "created", updateDetectedAt |-> NotDetected]

\* A push subscription: "none" (no document), "active", "inactive".
SubStates == {"none", "active", "inactive"}

\* collection.findOne({registration}): the first matching document, if any.
HasRecord(v) == notifications[v] # <<>>
FindOne(v) == notifications[v][1]

\* collection.updateOne({registration}, {$set: ...}): the first matching
\* document is changed by `upd`; no document, no change (no upsert).
\* An updateOne with {upsert: true}: no match inserts a document.
NoMatchUpsert(v) == [notifications EXCEPT ![v] = <<NewRecord(Null)>>]

\* updateOne when no document matches the filter: matchedCount 0, the
\* collection is left as it is (none of the calls passes upsert).
NoMatch(v) == notifications

UpdateOne(v, upd(_)) ==
    IF HasRecord(v)
    THEN [notifications EXCEPT ![v] = <<upd(notifications[v][1])>> \o Tail(notifications[v])]
    ELSE NoMatch(v)

\* Index of the first document of v with hasUpdate = true, 0 if none.
FirstPending(v) ==
    LET idx == {n \in 1..Len(notifications[v]) : notifications[v][n].hasUpdate}
    IN  IF idx = {} THEN 0 ELSE CHOOSE n \in idx : \A m \in idx : n <= m

\* ------------------------------------------------ poll: getPendingNotifications

Absent == -1
NoResp == [status |-> 0, hasUpdate |-> FALSE, details |-> NoDetails,
           updateDetectedAt |-> NotDetected,
           lastCheckedDate |-> FALSE, lastMotTestDate |-> Absent]
ErrResp(code) == [NoResp EXCEPT !.status = code]

PollIdle == [pc |-> "idle", record |-> NewRecord(Null), resp |-> NoResp]
PollDone(resp) == [pc |-> "done", record |-> NewRecord(Null), resp |-> resp]
\* The end of a request that got as far as its findOneAndUpdate; a claiming
\* request keeps, as history, the document its findOne had read.
PollAnswer(record, resp) ==
    [pc |-> "done", record |-> IF resp.hasUpdate THEN record ELSE NewRecord(Null),
     resp |-> resp]

\* findOneAndUpdate({registration, hasUpdate: true}, ..., {returnDocument:
\* 'before'}) returns the matched document as it was before the update, or
\* null when no document matches.
UpdatedRecord(v) ==
    LET idx == FirstPending(v)
    IN  [found |-> idx # 0,
         doc |-> IF idx # 0 THEN notifications[v][idx] ELSE NewRecord(Null)]

\* A decision taken from the document findOne read earlier.
ClaimedFromRead(record, updatedRecord) == record.hasUpdate

\* if (updatedRecord && updatedRecord.hasUpdate)
Claimed(record, updatedRecord) == updatedRecord.found /\ updatedRecord.doc.hasUpdate

\* A response built from the document findOne read earlier.
ClaimedDocFromRead(record, updatedRecord) == record

\* updateDetectedAt: updatedRecord.updateDetectedAt, details:
\* updatedRecord.updateDetails: the response of a claim is built from the
\* document findOneAndUpdate returned.
ClaimedDoc(record, updatedRecord) == updatedRecord.doc

\* A poll that answers "nothing pending" for a vehicle without a record.
PollFindOneLenient(p, v) ==
    /\ poll[p].pc = "idle"
    /\ poll' = [poll EXCEPT ![p] =
            IF HasRecord(v)
            THEN [pc |-> "read", record |-> FindOne(v), resp |-> NoResp]
            ELSE PollDone([status |-> 200, hasUpdate |-> FALSE, details |-> NoDetails,
                           updateDetectedAt |-> NotDetected,
                           lastCheckedDate |-> TRUE, lastMotTestDate |-> Null])]
    /\ UNCHANGED <<notifications, pushSubs, lastNotifiedAt, sched, check, enable, disable, pushCount, detections, threw, pushDocs, pushResp, tokenVars, latestVars, connVars, clientVars>>

\* const record = await collection.findOne({registration}); if (!record)
\* return 404.
PollFindOne(p, v) ==
    /\ poll[p].pc = "idle"
    /\ \/ poll' = [poll EXCEPT ![p] = PollDone(ErrResp(500))]
       \/ /\ ~HasRecord(v)
          /\ poll' = [poll EXCEPT ![p] = PollDone(ErrResp(404))]
       \/ /\ HasRecord(v)
          /\ poll' = [poll EXCEPT ![p] = [pc |-> "read", record |-> FindOne(v), resp |-> NoResp]]
    /\ UNCHANGED <<notifications, pushSubs, lastNotifiedAt, sched, check, enable, disable, pushCount, detections, threw, pushDocs, pushResp, tokenVars, latestVars, connVars, clientVars>>

\* const updatedRecord = await collection.findOneAndUpdate(
\*   {registration, hasUpdate: true}, {$set: {hasUpdate: false, ...}},
\*   {returnDocument: 'before'}), then the response.
PollClaim(p, v) ==
    /\ poll[p].pc = "read"
    /\ \/ /\ poll' = [poll EXCEPT ![p] = PollDone(ErrResp(500))]
          /\ UNCHANGED notifications
       \/ LET updatedRecord == UpdatedRecord(v)
              record == poll[p].record
          IN  /\ notifications' =
                    IF updatedRecord.found
                    THEN [notifications EXCEPT ![v][FirstPending(v)].hasUpdate = FALSE]
                    ELSE notifications
              /\ poll' = [poll EXCEPT ![p] = PollAnswer(record,
                    IF Claimed(record, updatedRecord)
                    THEN [status |-> 200, hasUpdate |-> TRUE,
                          details |-> ClaimedDoc(record, updatedRecord).updateDetails,
                          updateDetectedAt |-> ClaimedDoc(record, updatedRecord).updateDetectedAt,
                          lastCheckedDate |-> TRUE, lastMotTestDate |-> Absent]
                    ELSE [status |-> 200, hasUpdate |-> FALSE, details |-> NoDetails,
                          updateDetectedAt |-> NotDetected,
                          lastCheckedDate |-> TRUE,
                          lastMotTestDate |-> record.lastMotTestDate])]
    /\ UNCHANGED <<pushSubs, lastNotifiedAt, sched, check, enable, disable, pushCount, detections, threw, pushDocs, pushResp, tokenVars, latestVars, connVars, clientVars>>

\* ------------------------------------------------ on-demand: checkMotUpdates

CheckIdle == [pc |-> "idle", lastMotTestDate |-> Null, latest |-> Null, status |-> 0]
CheckDone(code) == [pc |-> "done", lastMotTestDate |-> Null, latest |-> Null, status |-> code]

\* const notificationRecord = await notificationsCollection.findOne(...)
CheckFindOne(c, v) ==
    /\ check[c].pc = "idle"
    /\ \/ check' = [check EXCEPT ![c] = CheckDone(500)]
       \/ /\ ~HasRecord(v)
          /\ check' = [check EXCEPT ![c] = CheckDone(404)]
       \/ /\ HasRecord(v)
          /\ check' = [check EXCEPT ![c] =
                [CheckIdle EXCEPT !.pc = "fetch",
                                  !.lastMotTestDate = FindOne(v).lastMotTestDate]]
    /\ UNCHANGED <<notifications, pushSubs, lastNotifiedAt, sched, poll, enable, disable, pushCount, detections, threw, pushDocs, pushResp, tokenVars, latestVars, connVars, clientVars>>

\* const vehicleData = await getMotHistory(formattedReg); the latest date.
CheckFetch(c) ==
    /\ check[c].pc = "fetch"
    /\ \/ check' = [check EXCEPT ![c] = CheckDone(500)]
       \/ \E tests \in TestLists :
            check' = [check EXCEPT ![c].pc = "write", ![c].latest = GetLatestMotTest(tests)]
    /\ UNCHANGED <<notifications, pushSubs, lastNotifiedAt, sched, poll, enable, disable, pushCount, detections, threw, pushDocs, pushResp, tokenVars, latestVars, connVars, clientVars>>

\* The $set of checkMotUpdates: lastCheckedDate and lastMotTestDate.
CheckSet(latest, doc) ==
    [doc EXCEPT !.lastCheckedDate = "checked", !.lastMotTestDate = latest]

\* await notificationsCollection.updateOne({registration}, {$set: {...}})
CheckWrite(c, v) ==
    /\ check[c].pc = "write"
    /\ \/ /\ check' = [check EXCEPT ![c] = CheckDone(500)]
          /\ UNCHANGED notifications
       \/ /\ LET upd(doc) == CheckSet(check[c].latest, doc)
             IN  notifications' = UpdateOne(v, upd)
          /\ check' = [check EXCEPT ![c] = CheckDone(200)]
    /\ UNCHANGED <<pushSubs, lastNotifiedAt, sched, poll, enable, disable, pushCount, detections, threw, pushDocs, pushResp, tokenVars, latestVars, connVars, clientVars>>

\* ------------------------------------- subscribe / unsubscribe (the vehicle)

\* A subscribe request: `initial` is initialMotTestDate, `status` the
\* response's statusCode, `created` whether the response has initialState
\* (with `initial` as its lastMotTestDate); `fetch` is the history of its
\* getMotHistory call ("no", "ok", "failed").
EnableIdle == [pc |-> "idle", initial |-> Null, status |-> 0, fetch |-> "no", created |-> FALSE]
EnableDone(code) == [EnableIdle EXCEPT !.pc = "done", !.status = code]

\* A subscribe that does not look for an existing record.
EnableFindOneAlways(e, v) ==
    /\ enable[e].pc = "idle"
    /\ enable' = [enable EXCEPT ![e].pc = "fetch"]
    /\ UNCHANGED <<notifications, pushSubs, lastNotifiedAt, sched, poll, check, disable, pushCount, detections, threw, pushDocs, pushResp, tokenVars, latestVars, connVars, clientVars>>

\* const existingRecord = await notificationsCollection.findOne(...); an
\* existing record answers 200 at once.
EnableFindOne(e, v) ==
    /\ enable[e].pc = "idle"
    /\ \/ enable' = [enable EXCEPT ![e] = EnableDone(500)]
       \/ /\ HasRecord(v)
          /\ enable' = [enable EXCEPT ![e] = EnableDone(200)]
       \/ /\ ~HasRecord(v)
          /\ enable' = [enable EXCEPT ![e].pc = "fetch"]
    /\ UNCHANGED <<notifications, pushSubs, lastNotifiedAt, sched, poll, check, disable, pushCount, detections, threw, pushDocs, pushResp, tokenVars, latestVars, connVars, clientVars>>

\* A baseline fetch whose failure fails the request.
EnableFetchStrict(e) ==
    /\ enable[e].pc = "fetch"
    /\ \/ enable' = [enable EXCEPT ![e] = [EnableDone(500) EXCEPT !.fetch = "failed"]]
       \/ \E tests \in TestLists :
            enable' = [enable EXCEPT ![e].pc = "insert", ![e].fetch = "ok",
                                     ![e].initial = GetLatestMotTest(tests)]
    /\ UNCHANGED <<notifications, pushSubs, lastNotifiedAt, sched, poll, check, disable, pushCount, detections, threw, pushDocs, pushResp, tokenVars, latestVars, connVars, clientVars>>

\* The best-effort baseline fetch: a failure leaves initialMotTestDate null.
EnableFetch(e) ==
    /\ enable[e].pc = "fetch"
    /\ \/ enable' = [enable EXCEPT ![e].pc = "insert", ![e].fetch = "failed"]
       \/ \E tests \in TestLists :
            enable' = [enable EXCEPT ![e].pc = "insert", ![e].fetch = "ok",
                                     ![e].initial = GetLatestMotTest(tests)]
    /\ UNCHANGED <<notifications, pushSubs, lastNotifiedAt, sched, poll, check, disable, pushCount, detections, threw, pushDocs, pushResp, tokenVars, latestVars, connVars, clientVars>>

\* await notificationsCollection.insertOne(record)
EnableInsert(e, v) ==
    /\ enable[e].pc = "insert"
    /\ \/ /\ enable' = [enable EXCEPT ![e] =
                [EnableDone(500) EXCEPT !.fetch = enable[e].fetch]]
          /\ UNCHANGED notifications
       \/ /\ notifications' =
                [notifications EXCEPT ![v] = Append(@, NewRecord(enable[e].initial))]
          /\ enable' = [enable EXCEPT ![e] =
                [EnableDone(200) EXCEPT !.fetch = enable[e].fetch, !.created = TRUE,
                                        !.initial = enable[e].initial]]
    /\ UNCHANGED <<pushSubs, lastNotifiedAt, sched, poll, check, disable, pushCount, detections, threw, pushDocs, pushResp, tokenVars, latestVars, connVars, clientVars>>

\* An unsubscribe request and its response; `threw` is the history of a
\* store call that failed.
DisableIdle == [pc |-> "idle", status |-> 0, threw |-> FALSE]
DisableDone(code) == [pc |-> "done", status |-> code, threw |-> FALSE]

\* disableNotification: deleteOne({registration}) removes the first match;
\* deletedCount 0 answers 404, a store failure 500.
Disable(x, v) ==
    /\ disable[x].pc = "idle"
    /\ \/ /\ disable' = [disable EXCEPT ![x] = [DisableDone(500) EXCEPT !.threw = TRUE]]
          /\ UNCHANGED notifications
       \/ /\ ~HasRecord(v)
          /\ disable' = [disable EXCEPT ![x] = DisableDone(404)]
          /\ UNCHANGED notifications
       \/ /\ HasRecord(v)
          /\ notifications' = [notifications EXCEPT ![v] = Tail(@)]
          /\ disable' = [disable EXCEPT ![x] = DisableDone(200)]
    /\ UNCHANGED <<pushSubs, lastNotifiedAt, sched, poll, check, enable, pushCount, detections, threw, pushDocs, pushResp, tokenVars, latestVars, connVars, clientVars>>

\* No push subscribe or unsubscribe call has been answered for the pair.
NoPushResp == [kind |-> "none", status |-> 0]

\* insertOne(subscriptionRecord): a new document whatever the collection holds.
InsertOneAlways(docs) == docs + 1

\* replaceOne({registration, deviceId}, subscriptionRecord, {upsert: true}):
\* a document that matches the pair is replaced in place, and only when none
\* matches is one inserted. The unique index {registration, deviceId} that
\* the handler creates before the write makes the match and the insert one
\* step for concurrent calls on the same pair.
ReplaceOneUpsert(docs) == IF docs = 0 THEN 1 ELSE docs

\* subscribeToPushNotifications: createIndex, then the upsert of a record
\* with active: true and lastNotifiedAt: null, then 200; a store failure
\* leaves the collection alone and answers 500.
PushSubscribe(v, d) ==
    /\ \/ /\ pushResp' = [pushResp EXCEPT ![<<v, d>>] = [kind |-> "subscribe", status |-> 500]]
          /\ UNCHANGED <<pushSubs, lastNotifiedAt, pushDocs>>
       \/ /\ pushDocs' = [pushDocs EXCEPT ![<<v, d>>] = ReplaceOneUpsert(@)]
          /\ pushSubs' = [pushSubs EXCEPT ![<<v, d>>] = "active"]
          /\ lastNotifiedAt' = [lastNotifiedAt EXCEPT ![<<v, d>>] = 0]
          /\ pushResp' = [pushResp EXCEPT ![<<v, d>>] = [kind |-> "subscribe", status |-> 200]]
    /\ UNCHANGED <<notifications, sched, poll, check, enable, disable, pushCount, detections, threw, tokenVars, latestVars, connVars, clientVars>>

\* deleteOne({registration, deviceId}) removes one matching document.
DeleteOne(docs) == IF docs = 0 THEN 0 ELSE docs - 1

\* unsubscribeFromPushNotifications: deleteOne, 404 when deletedCount is 0,
\* else 200; a store failure answers 500. The document's _id is gone for
\* good: a copy of it that a dispatch loaded earlier no longer matches any
\* document (live = FALSE), also after a new subscribe.
PushUnsubscribe(v, d) ==
    /\ \/ /\ pushResp' = [pushResp EXCEPT ![<<v, d>>] = [kind |-> "unsubscribe", status |-> 500]]
          /\ UNCHANGED <<pushSubs, lastNotifiedAt, pushDocs, sched>>
       \/ /\ pushDocs[<<v, d>>] = 0
          /\ pushResp' = [pushResp EXCEPT ![<<v, d>>] = [kind |-> "unsubscribe", status |-> 404]]
          /\ UNCHANGED <<pushSubs, lastNotifiedAt, pushDocs, sched>>
       \/ /\ pushDocs[<<v, d>>] > 0
          /\ pushDocs' = [pushDocs EXCEPT ![<<v, d>>] = DeleteOne(@)]
          /\ pushSubs' = [pushSubs EXCEPT ![<<v, d>>] =
                            IF pushDocs'[<<v, d>>] = 0 THEN "none" ELSE @]
          /\ lastNotifiedAt' = [lastNotifiedAt EXCEPT ![<<v, d>>] = 0]
          /\ sched' = [r \in Runs |->
                  [sched[r] EXCEPT !.subs =
                      [n \in 1..Len(sched[r].subs) |->
                          IF sched[r].subs[n].deviceId = d /\ sched[r].batch[sched[r].j].registration = v
                          THEN [sched[r].subs[n] EXCEPT !.live = FALSE]
                          ELSE sched[r].subs[n]]]]
          /\ pushResp' = [pushResp EXCEPT ![<<v, d>>] = [kind |-> "unsubscribe", status |-> 200]]
    /\ UNCHANGED <<notifications, poll, check, enable, disable, pushCount, detections, threw, tokenVars, latestVars, connVars, clientVars>>

\* ------------------------------------------------------ getLatestMotTest

\* The result variable before getLatestMotTest has returned.
NotReturned == -1

\* Every motTests list of the latest-test scenario, in every order.
LatestInputs == UNION {[1..n -> 1..MaxStamp] : n \in 0..MaxListLen}

\* A call of getLatestMotTest(vehicleData) and its return.
ApplyGetLatestMotTest ==
    /\ latestMotTest = NotReturned
    /\ latestMotTest' = GetLatestMotTest(motTests)
    /\ UNCHANGED <<storeVars, tokenVars, connVars, clientVars, motTests>>

\* No getLatestMotTest call under observation.
InitLatestIdle ==
    /\ motTests = <<>>
    /\ latestMotTest = NotReturned

\* ------------------------------------------------ utils/tokenManager.js

\* const maxWait = 30000; axios timeout: 10000; the 100 ms of one sleep of
\* the wait loop; 55 * 60 * 1000, the lifetime the cache gives a token.
maxWait == 30000
timeout == 10000
TokenLifetimeMs == 55 * 60 * 1000

\* The same durations in clock ticks. A sleep of the wait loop (100 ms) is
\* shorter than a tick: a waiting call wakes any number of times per tick.
MaxWaitTicks == maxWait \div TickMs
TimeoutTicks == timeout \div TickMs
TokenLifetime == TokenLifetimeMs \div TickMs

\* The scenario starts when a token issued at tick 0 expires and runs MaxTicks.
FirstTick == TokenLifetime
LastTick == FirstTick + MaxTicks

\* A call's locals (now, startTime), its outcome, and the tick it ended at.
CallIdle ==
    [pc |-> "idle", now |-> Null, startTime |-> Null, result |-> Null, error |-> "none",
     ended |-> Null]

\* return cachedToken
Returned(c, token) == [call[c] EXCEPT !.pc = "returned", !.result = token, !.ended = clock]

\* throw new Error(...)
Threw(c, error) == [call[c] EXCEPT !.pc = "threw", !.error = error, !.ended = clock]

\* cachedToken && tokenExpiry && now < tokenExpiry
CacheValid(now) == cachedToken # Null /\ tokenExpiry # Null /\ now < tokenExpiry

\* The calls whose axios.post is in flight.
InFlight == {c \in Callers : call[c].pc = "exchanging"}

\* A getAccessToken that does not look at the renewal flag.
GetAccessTokenNoFlag(c) ==
    /\ call[c].pc = "idle"
    /\ IF CacheValid(clock)
       THEN /\ call' = [call EXCEPT ![c] = Returned(c, cachedToken)]
            /\ UNCHANGED tokenRenewalInProgress
       ELSE /\ tokenRenewalInProgress' = TRUE
            /\ call' = [call EXCEPT ![c] = [call[c] EXCEPT !.pc = "exchanging", !.now = clock]]
    /\ UNCHANGED <<storeVars, latestVars, connVars, clientVars, cachedToken, tokenExpiry, clock, issued>>

\* getAccessToken up to its first await: the cache check, then either the
\* wait loop's first test (the flag was just read true, no time has passed)
\* or the flag set and the axios.post.
GetAccessToken(c) ==
    /\ call[c].pc = "idle"
    /\ IF CacheValid(clock)
       THEN /\ call' = [call EXCEPT ![c] = Returned(c, cachedToken)]
            /\ UNCHANGED tokenRenewalInProgress
       ELSE IF tokenRenewalInProgress
       THEN /\ call' = [call EXCEPT ![c] = [call[c] EXCEPT !.pc = "waiting", !.now = clock,
                                                             !.startTime = clock]]
            /\ UNCHANGED tokenRenewalInProgress
       ELSE /\ tokenRenewalInProgress' = TRUE
            /\ call' = [call EXCEPT ![c] = [call[c] EXCEPT !.pc = "exchanging", !.now = clock]]
    /\ UNCHANGED <<storeVars, latestVars, connVars, clientVars, cachedToken, tokenExpiry, clock, issued>>

\* The negation of the wait loop's condition,
\* tokenRenewalInProgress && (Date.now() - startTime) < maxWait.
WaitOver(c) == ~(tokenRenewalInProgress /\ clock - call[c].startTime < MaxWaitTicks)

\* The wait loop after a sleep: when its condition no longer holds, the
\* cache decides between the token and 'Token renewal failed or timed out'.
WaitWake(c) ==
    /\ call[c].pc = "waiting"
    /\ WaitOver(c)
    /\ call' = [call EXCEPT ![c] =
                  IF CacheValid(clock) THEN Returned(c, cachedToken) ELSE Threw(c, "renewal")]
    /\ UNCHANGED <<storeVars, latestVars, connVars, clientVars, cachedToken, tokenExpiry, tokenRenewalInProgress, clock, issued>>

\* An expiry counted from the moment the response arrives.
ExpiryFromResponse(c) == clock + TokenLifetime

\* tokenExpiry = now + (55 * 60 * 1000), now being the call's first line.
ExpiryFromCall(c) == call[c].now + TokenLifetime

\* The exchange answers: the cache takes the new token, the call returns it
\* and the finally block clears the flag.
ExchangeOk(c) ==
    /\ call[c].pc = "exchanging"
    /\ issued' = issued + 1
    /\ cachedToken' = issued + 1
    /\ tokenExpiry' = ExpiryFromCall(c)
    /\ tokenRenewalInProgress' = FALSE
    /\ call' = [call EXCEPT ![c] = Returned(c, issued + 1)]
    /\ UNCHANGED <<storeVars, latestVars, connVars, clientVars, clock>>

\* A failed exchange that also drops what the cache holds.
ExchangeFailClearsCache(c) ==
    /\ call[c].pc = "exchanging"
    /\ cachedToken' = Null
    /\ tokenExpiry' = Null
    /\ tokenRenewalInProgress' = FALSE
    /\ call' = [call EXCEPT ![c] = Threw(c, "auth")]
    /\ UNCHANGED <<storeVars, latestVars, connVars, clientVars, clock, issued>>

\* A failed exchange that leaves the flag set.
ExchangeFailKeepsFlag(c) ==
    /\ call[c].pc = "exchanging"
    /\ call' = [call EXCEPT ![c] = Threw(c, "auth")]
    /\ UNCHANGED <<storeVars, latestVars, connVars, clientVars, cachedToken, tokenExpiry, tokenRenewalInProgress, clock, issued>>

\* The exchange fails (an error response, a network error or the axios
\* timeout): 'Failed to authenticate with MOT API', and the finally block
\* clears the flag.
ExchangeFail(c) ==
    /\ call[c].pc = "exchanging"
    /\ tokenRenewalInProgress' = FALSE
    /\ call' = [call EXCEPT ![c] = Threw(c, "auth")]
    /\ UNCHANGED <<storeVars, latestVars, connVars, clientVars, cachedToken, tokenExpiry, clock, issued>>

\* Time passes. An exchange in flight is over, one way or the other, when
\* the axios timeout has run out, and a waiting call whose loop condition
\* no longer holds wakes from its 100 ms sleep within the tick.
Tick ==
    /\ clock < LastTick
    /\ \A c \in InFlight : clock + 1 - call[c].now <= TimeoutTicks
    /\ \A c \in Callers : call[c].pc = "waiting" => ~WaitOver(c)
    /\ clock' = clock + 1
    /\ UNCHANGED <<storeVars, latestVars, connVars, clientVars, cachedToken, tokenExpiry, tokenRenewalInProgress, issued, call>>

\* A container in which no getAccessToken call has been made.
InitTokenCold ==
    /\ cachedToken = Null
    /\ tokenExpiry = Null
    /\ tokenRenewalInProgress = FALSE
    /\ clock = FirstTick
    /\ issued = 0
    /\ call = [c \in Callers |-> CallIdle]

\* ------------------------------------------------------ utils/mongodb.js

\* const MAX_RETRIES = 3; const RETRY_DELAY = 1000 (milliseconds)
MAX_RETRIES == 3
RETRY_DELAY == 1000

\* Math.pow(2, retryCount)
RECURSIVE Pow2(_)
Pow2(n) == IF n = 0 THEN 1 ELSE 2 * Pow2(n - 1)

\* The messages of the two errors connectToDatabase throws.
UriNotSet == "MONGODB_URI environment variable is not set"
FailedToConnect == "Failed to connect to database after 4 attempts"

\* A connectToDatabase call: retryCount is the parameter of the innermost
\* recursive call, pinged the connection under the ping test, client the
\* MongoClient of the current attempt; attempts (clients constructed),
\* delays (the setTimeout delays so far) and failedPings are history.
ConnIdle ==
    [pc |-> "idle", retryCount |-> 0, pinged |-> Null, client |-> Null,
     attempts |-> 0, delays |-> <<>>, failedPings |-> {},
     result |-> Null, error |-> "none"]

\* if (!uri) throw ...; else new MongoClient(uri, ...) and client.connect().
NewClient(c, rec) ==
    IF ~uri
    THEN /\ conn' = [conn EXCEPT ![c] = [rec EXCEPT !.pc = "threw", !.error = UriNotSet]]
         /\ UNCHANGED clients
    ELSE /\ clients' = clients + 1
         /\ conn' = [conn EXCEPT ![c] = [rec EXCEPT !.pc = "connect",
                                                    !.client = clients + 1,
                                                    !.attempts = @ + 1]]

\* The start of the function body, for the outer and the recursive call: a
\* cached connection is ping-tested, otherwise a new client connects.
Enter(c, rec) ==
    IF cachedDb # Null
    THEN /\ conn' = [conn EXCEPT ![c] = [rec EXCEPT !.pc = "ping", !.pinged = cachedDb]]
         /\ UNCHANGED clients
    ELSE NewClient(c, rec)

\* connectToDatabase() is called.
ConnectToDatabase(c) ==
    /\ conn[c].pc = "idle"
    /\ Enter(c, conn[c])
    /\ UNCHANGED <<storeVars, tokenVars, latestVars, clientVars, cachedDb, uri>>

\* The ping of the cached connection resolved: return cachedDb, the value
\* the module variable holds when the call resumes.
PingOk(c) ==
    /\ conn[c].pc = "ping"
    /\ conn' = [conn EXCEPT ![c].pc = "returned", ![c].result = cachedDb]
    /\ UNCHANGED <<storeVars, tokenVars, latestVars, clientVars, cachedDb, uri, clients>>

\* The ping rejected: the cache is cleared and the call reconnects.
PingFail(c) ==
    /\ conn[c].pc = "ping"
    /\ cachedDb' = Null
    /\ NewClient(c, [conn[c] EXCEPT !.failedPings = @ \cup {conn[c].pinged}])
    /\ UNCHANGED <<storeVars, tokenVars, latestVars, clientVars, uri>>

\* The catch block with one retry too many.
CatchRetriesOnceMore(c) ==
    /\ cachedDb' = Null
    /\ IF conn[c].retryCount <= MAX_RETRIES
       THEN conn' = [conn EXCEPT ![c].pc = "delay",
                                 ![c].delays = Append(@, RETRY_DELAY * Pow2(conn[c].retryCount))]
       ELSE conn' = [conn EXCEPT ![c].pc = "threw", ![c].error = FailedToConnect]
    /\ UNCHANGED <<storeVars, tokenVars, latestVars, clientVars, uri, clients>>

\* The catch block: the cache is cleared; while retryCount < MAX_RETRIES the
\* call sleeps RETRY_DELAY * 2^retryCount, otherwise it throws.
Catch(c) ==
    /\ cachedDb' = Null
    /\ IF conn[c].retryCount < MAX_RETRIES
       THEN conn' = [conn EXCEPT ![c].pc = "delay",
                                 ![c].delays = Append(@, RETRY_DELAY * Pow2(conn[c].retryCount))]
       ELSE conn' = [conn EXCEPT ![c].pc = "threw", ![c].error = FailedToConnect]
    /\ UNCHANGED <<storeVars, tokenVars, latestVars, clientVars, uri, clients>>

\* await client.connect() resolved; the ping command is sent.
ConnectOk(c) ==
    /\ conn[c].pc = "connect"
    /\ conn' = [conn EXCEPT ![c].pc = "command"]
    /\ UNCHANGED <<storeVars, tokenVars, latestVars, clientVars, cachedDb, uri, clients>>

\* await client.connect() rejected.
ConnectFail(c) ==
    /\ conn[c].pc = "connect"
    /\ Catch(c)

\* The ping command resolved: the connection is cached and returned.
CommandOk(c) ==
    /\ conn[c].pc = "command"
    /\ cachedDb' = conn[c].client
    /\ conn' = [conn EXCEPT ![c].pc = "returned", ![c].result = conn[c].client]
    /\ UNCHANGED <<storeVars, tokenVars, latestVars, clientVars, uri, clients>>

\* The ping command rejected.
CommandFail(c) ==
    /\ conn[c].pc = "command"
    /\ Catch(c)

\* The retry delay is over: return connectToDatabase(retryCount + 1).
RetryConnect(c) ==
    /\ conn[c].pc = "delay"
    /\ Enter(c, [conn[c] EXCEPT !.retryCount = @ + 1])
    /\ UNCHANGED <<storeVars, tokenVars, latestVars, clientVars, cachedDb, uri>>

\* A container in which connectToDatabase is not under observation.
InitConnIdle ==
    /\ cachedDb = Null
    /\ uri = TRUE
    /\ clients = 0
    /\ conn = [c \in Connectors |-> ConnIdle]

\* --------------------------------- client: services/notificationService.js

\* A registration without an entry in errorCounts.
NoCount == -1

\* How a poll's request ends: the fetch rejected, answered with a status
\* other than 2xx and 404, or its body was not JSON ("failed"); answered
\* 404 ("notFound"); answered 200 with hasUpdate false or true.
Outcomes == {"failed", "notFound", "noUpdate", "update"}

\* checkForUpdates: null (truthy = FALSE) for a failed request and for 404,
\* otherwise the body of the response.
CheckForUpdates(outcome) ==
    CASE outcome = "failed" -> [truthy |-> FALSE, hasUpdate |-> FALSE]
      [] outcome = "notFound" -> [truthy |-> FALSE, hasUpdate |-> FALSE]
      [] outcome = "noUpdate" -> [truthy |-> TRUE, hasUpdate |-> FALSE]
      [] outcome = "update" -> [truthy |-> TRUE, hasUpdate |-> TRUE]

\* onPollComplete invoked only for a poll that got a response body.
OnPollCompleteIfInfo(onPollComplete, updateInfo) ==
    IF onPollComplete /\ updateInfo.truthy THEN 1 ELSE 0

\* if (onPollComplete) onPollComplete(formattedReg, pollStartTime): the
\* invocations of the callback in one poll.
OnPollComplete(onPollComplete, updateInfo) ==
    IF onPollComplete THEN 1 ELSE 0

\* if (updateInfo && updateInfo.hasUpdate) if (onUpdate) onUpdate(updateInfo):
\* the invocations of onUpdate in one poll; the page always supplies it.
OnUpdate(updateInfo) ==
    IF updateInfo.truthy /\ updateInfo.hasUpdate THEN 1 ELSE 0

\* pollFn() up to its await: a new poll of the closure of startPolling call
\* g, with its request in flight. completed and updated count the callback
\* invocations; afterStop records one made after the polling was stopped,
\* while the registration is not polled at all.
RunPollFn(g) ==
    Append(polls, [start |-> g, pc |-> "fetch", outcome |-> "none",
                   completed |-> 0, updated |-> 0, afterStop |-> FALSE])

\* The startPolling calls whose polling stopPolling(reg) stops: the one
\* whose timer the intervals map holds for reg.
StoppedBy(reg) == IF intervals[reg] = Null THEN {} ELSE {intervals[reg]}

\* started with the calls in gs marked as stopped.
MarkStopped(gs) ==
    [g \in DOMAIN started |->
        IF g \in gs THEN [started[g] EXCEPT !.stopped = TRUE] ELSE started[g]]

\* startPolling(registration, onUpdate, intervalSeconds, onPollComplete):
\* stopPolling(registration), the map entries, the immediate pollFn() and
\* the new interval timer.
StartPolling(reg, onPollComplete) ==
    /\ Len(started) < MaxStarts
    /\ Len(polls) < MaxPolls
    /\ LET g == Len(started) + 1 IN
        /\ started' = Append(MarkStopped(StoppedBy(reg)),
                             [reg |-> reg, onPollComplete |-> onPollComplete, stopped |-> FALSE])
        /\ live' = (live \ StoppedBy(reg)) \cup {g}
        /\ intervals' = [intervals EXCEPT ![reg] = g]
        /\ errorCounts' = [errorCounts EXCEPT ![reg] = 0]
        /\ polls' = RunPollFn(g)
    /\ UNCHANGED <<storeVars, tokenVars, latestVars, connVars>>

\* stopPolling(registration): clearInterval and the deletion of the map
\* entries when the intervals map has the registration, nothing otherwise.
StopPolling(reg) ==
    /\ started' = MarkStopped(StoppedBy(reg))
    /\ live' = live \ StoppedBy(reg)
    /\ intervals' = [intervals EXCEPT ![reg] = Null]
    /\ errorCounts' = [errorCounts EXCEPT ![reg] = IF intervals[reg] = Null THEN @ ELSE NoCount]
    /\ UNCHANGED <<storeVars, tokenVars, latestVars, connVars, polls>>

\* stopAll(): clearInterval for every entry of the intervals map, then the
\* four maps are cleared.
StopAll ==
    /\ started' = MarkStopped(UNION {StoppedBy(reg) : reg \in Regs})
    /\ live' = live \ UNION {StoppedBy(reg) : reg \in Regs}
    /\ intervals' = [reg \in Regs |-> Null]
    /\ errorCounts' = [reg \in Regs |-> NoCount]
    /\ UNCHANGED <<storeVars, tokenVars, latestVars, connVars, polls>>

\* An interval timer fires: pollFn() of its closure starts a poll.
TimerFires(g) ==
    /\ g \in live
    /\ Len(polls) < MaxPolls
    /\ polls' = RunPollFn(g)
    /\ UNCHANGED <<storeVars, tokenVars, latestVars, connVars, intervals, errorCounts, started, live>>

\* The request of poll p ended: checkForUpdates resolves and pollFn resumes
\* with the callbacks of its closure, whatever the maps hold by now.
PollAnswered(p, outcome) ==
    /\ p \in DOMAIN polls
    /\ polls[p].pc = "fetch"
    /\ LET g == polls[p].start
           updateInfo == CheckForUpdates(outcome)
           completed == OnPollComplete(started[g].onPollComplete, updateInfo)
           updated == OnUpdate(updateInfo)
       IN /\ errorCounts' = [errorCounts EXCEPT ![started[g].reg] = 0]
          /\ polls' = [polls EXCEPT ![p] =
                [@ EXCEPT !.pc = "done", !.outcome = outcome,
                          !.completed = @ + completed,
                          !.updated = @ + updated,
                          !.afterStop = /\ started[g].stopped
                                        /\ intervals[started[g].reg] = Null
                                        /\ completed + updated > 0]]
    /\ UNCHANGED <<storeVars, tokenVars, latestVars, connVars, intervals, started, live>>

\* A page that has not started polling.
InitClientIdle ==
    /\ intervals = [reg \in Regs |-> Null]
    /\ errorCounts = [reg \in Regs |-> NoCount]
    /\ started = <<>>
    /\ live = {}
    /\ polls = <<>>

\* ------------------------------------------- scheduler: scheduled-mot-check

\* const batchSize = 3
batchSize == 3

NoResults == [total |-> -1, checked |-> -1, updated |-> -1, errors |-> -1]
NoSummary == [statusCode |-> 0, results |-> NoResults]

\* Locals of a run that is not inside the loop.
SchedIdle ==
    [pc |-> "idle", regs |-> <<>>, i |-> 0, batch |-> <<>>, j |-> 0,
     results |-> NoResults, latest |-> Null,
     subs |-> <<>>, k |-> 0, sent |-> 0, failed |-> 0,
     loaded |-> <<>>, attempts |-> <<>>, outcomes |-> <<>>,
     batches |-> <<>>, delays |-> 0, fetched |-> <<>>, log |-> <<>>, summary |-> NoSummary]

\* History of a run: `batches` the sizes of the batches it sliced, `delays`
\* the inter-batch delays it has sat out, `fetched`
\* the list positions it called getMotHistory for, `log` its per-vehicle
\* store writes ("update", "checked", "error") and the catch-block writes
\* that failed ("lost"). History of the dispatch for the vehicle it is at:
\* `loaded` the devices of the subscriptions found, `attempts` the devices
\* webpush.sendNotification was called for, `outcomes` how each device's
\* iteration ended ("sent", "sentUnstamped": delivered but the lastNotifiedAt
\* write failed, "gone": 404/410 and deactivated, "goneLost": 404/410 but the
\* deactivation write failed, "failed"), `sent` and `failed` the results of
\* the dispatch.
SchedDone(run, summary) ==
    [SchedIdle EXCEPT !.pc = "done", !.batches = run.batches, !.delays = run.delays,
                      !.fetched = run.fetched, !.log = run.log,
                      !.summary = summary]

\* collection.find({enabled: true or missing, registration present}).toArray():
\* the documents of registrations 1..v in store order, reduced to the fields
\* the run reads.
RECURSIVE FindEnabled(_)
FindEnabled(v) ==
    IF v = 0 THEN <<>>
    ELSE FindEnabled(v - 1) \o
         [n \in 1..Len(SelectSeq(notifications[v], LAMBDA doc : doc.enabled)) |->
            [registration |-> v,
             lastMotTestDate |->
                SelectSeq(notifications[v], LAMBDA doc : doc.enabled)[n].lastMotTestDate]]

\* registrations.slice(i, i + batchSize)
Slice(regs, i) == SubSeq(regs, i + 1, Min(i + batchSize, Len(regs)))

\* The vehicle the run is processing.
CurReg(run) == run.batch[run.j]

\* Position of that vehicle in the run's snapshot.
CurPos(run) == run.i + run.j

\* An entry of a run's log for the vehicle it is at.
LogEntry(run, kind) == [pos |-> CurPos(run), kind |-> kind]

\* const results = {total: registrations.length, checked: 0, updated: 0, errors: 0}
InitResults(regs) ==
    [total |-> Len(regs), checked |-> 0, updated |-> 0, errors |-> 0]

\* The handler up to the first vehicle: connect, load the snapshot, return
\* early when it is empty, else set up the counters and the first batch.
SchedStart(r) ==
    /\ sched[r].pc = "idle"
    /\ \/ sched' = [sched EXCEPT ![r] =
                SchedDone(sched[r], [statusCode |-> 500, results |-> NoResults])]
       \/ LET regs == FindEnabled(MaxVehicles)
          IN  sched' = [sched EXCEPT ![r] =
                IF Len(regs) = 0
                THEN SchedDone(sched[r], [statusCode |-> 200, results |-> NoResults])
                ELSE [SchedIdle EXCEPT !.pc = "item", !.regs = regs, !.i = 0,
                                       !.batch = Slice(regs, 0), !.j = 1,
                                       !.results = InitResults(regs),
                                       !.batches = <<Len(Slice(regs, 0))>>]]
    /\ UNCHANGED <<notifications, pushSubs, lastNotifiedAt, poll, check, enable, disable, pushCount, detections, threw, pushDocs, pushResp, tokenVars, latestVars, connVars, clientVars>>

\* A loop that stops after its first batch.
AdvanceNoDelay(run) ==
    IF run.j < Len(run.batch)
    THEN [run EXCEPT !.pc = "item", !.j = run.j + 1, !.latest = Null,
                     !.subs = <<>>, !.k = 0, !.sent = 0, !.failed = 0,
                     !.loaded = <<>>, !.attempts = <<>>, !.outcomes = <<>>]
    ELSE SchedDone(run, [statusCode |-> 200, results |-> run.results])

\* A loop that goes from one batch to the next without the delay.
AdvanceSkipDelay(run) ==
    IF run.j < Len(run.batch)
    THEN [run EXCEPT !.pc = "item", !.j = run.j + 1, !.latest = Null,
                     !.subs = <<>>, !.k = 0, !.sent = 0, !.failed = 0,
                     !.loaded = <<>>, !.attempts = <<>>, !.outcomes = <<>>]
    ELSE IF run.i + batchSize < Len(run.regs)
         THEN [run EXCEPT !.pc = "item", !.latest = Null,
                          !.i = run.i + batchSize,
                          !.batch = Slice(run.regs, run.i + batchSize), !.j = 1,
                          !.batches = Append(run.batches, Len(Slice(run.regs, run.i + batchSize))),
                          !.subs = <<>>, !.k = 0, !.sent = 0, !.failed = 0,
                          !.loaded = <<>>, !.attempts = <<>>, !.outcomes = <<>>]
         ELSE SchedDone(run, [statusCode |-> 200, results |-> run.results])

\* The end of one vehicle's iteration: the next vehicle of the batch, else
\* the inter-batch delay when more batches follow, else the summary.
Advance(run) ==
    IF run.j < Len(run.batch)
    THEN [run EXCEPT !.pc = "item", !.j = run.j + 1, !.latest = Null,
                     !.subs = <<>>, !.k = 0, !.sent = 0, !.failed = 0,
                     !.loaded = <<>>, !.attempts = <<>>, !.outcomes = <<>>]
    ELSE IF run.i + batchSize < Len(run.regs)
         THEN [run EXCEPT !.pc = "delay", !.latest = Null,
                          !.subs = <<>>, !.k = 0, !.sent = 0, !.failed = 0,
                          !.loaded = <<>>, !.attempts = <<>>, !.outcomes = <<>>]
         ELSE SchedDone(run, [statusCode |-> 200, results |-> run.results])

\* await new Promise(resolve => setTimeout(resolve, delay)), then the next
\* batch: i += batchSize; batch = registrations.slice(i, i + batchSize).
SchedDelay(r) ==
    /\ sched[r].pc = "delay"
    /\ LET run == sched[r]
           i   == run.i + batchSize
       IN  sched' = [sched EXCEPT ![r] =
                [run EXCEPT !.pc = "item", !.i = i, !.batch = Slice(run.regs, i), !.j = 1,
                            !.delays = run.delays + 1,
                            !.batches = Append(run.batches, Len(Slice(run.regs, i)))]]
    /\ UNCHANGED <<notifications, pushSubs, lastNotifiedAt, poll, check, enable, disable, pushCount, detections, threw, pushDocs, pushResp, tokenVars, latestVars, connVars, clientVars>>

\* The catch block's synchronous part: results.errors++.
CountError(results) == [results EXCEPT !.errors = @ + 1]

\* results.checked++, the fetch (token + upstream call), the latest test
\* and the update decision against the snapshot's lastMotTestDate.
SchedFetch(r) ==
    /\ sched[r].pc = "item"
    /\ LET run     == [sched[r] EXCEPT !.fetched = Append(@, CurPos(sched[r]))]
           checked == [run.results EXCEPT !.checked = @ + 1]
       IN  \/ /\ sched' = [sched EXCEPT ![r] =
                    [run EXCEPT !.pc = "catch", !.results = CountError(checked)]]
              /\ threw' = [threw EXCEPT ![r] = @ \cup {CurPos(run)}]
           \/ /\ \E tests \in TestLists :
                    LET latest == GetLatestMotTest(tests)
                    IN  sched' = [sched EXCEPT ![r] =
                          IF latest # Null /\ HasUpdate(latest, CurReg(run).lastMotTestDate)
                          THEN [run EXCEPT !.pc = "dispatch", !.latest = latest,
                                           !.results = [checked EXCEPT !.updated = @ + 1]]
                          ELSE [run EXCEPT !.pc = "writeChecked", !.latest = latest,
                                           !.results = checked]]
              /\ UNCHANGED threw
    /\ UNCHANGED <<notifications, pushSubs, lastNotifiedAt, poll, check, enable, disable, pushCount, detections, pushDocs, pushResp, tokenVars, latestVars, connVars, clientVars>>

\* ------------------------------- dispatch: sendPushNotificationToDevices

\* subscriptionsCollection.find({registration, active, endpoint and keys
\* present}).toArray(): the active subscriptions of v, by device.
\* A filter that matches every stored subscription of the registration.
MatchesAny(v, d) == pushSubs[<<v, d>>] # "none"

\* The find's filter: {registration}, {active: true or missing}.
MatchesActive(v, d) == pushSubs[<<v, d>>] = "active"

RECURSIVE ActiveSubs(_, _)
ActiveSubs(v, d) ==
    IF d = 0 THEN <<>>
    ELSE ActiveSubs(v, d - 1) \o
         (IF MatchesActive(v, d)
          THEN <<[deviceId |-> d, live |-> TRUE]>> ELSE <<>>)

\* The dispatch returns (or throws into the scheduler's inner try/catch,
\* which only logs): the scheduler goes on to its store write.
AfterDispatch(run) ==
    [run EXCEPT !.pc = "writeUpdate", !.subs = <<>>, !.k = 0]

\* The outcome of the device iteration the run is in.
Outcome(run, kind) == [run EXCEPT !.outcomes = Append(@, kind)]

\* The end of one device's iteration of the for loop.
NextDevice(run) ==
    IF run.k < Len(run.subs)
    THEN [run EXCEPT !.pc = "send", !.k = run.k + 1]
    ELSE AfterDispatch(run)

\* connectToDatabase and the find of the active subscriptions.
SchedPushLoad(r) ==
    /\ sched[r].pc = "dispatch"
    /\ LET run == sched[r]
       IN  \/ sched' = [sched EXCEPT ![r] = AfterDispatch(run)]
           \/ LET subs == ActiveSubs(CurReg(run).registration, NumDevices)
              IN  sched' = [sched EXCEPT ![r] =
                    IF Len(subs) = 0 THEN AfterDispatch(run)
                    ELSE [run EXCEPT !.pc = "send", !.subs = subs, !.k = 1,
                                     !.sent = 0, !.failed = 0,
                                     !.loaded = [n \in 1..Len(subs) |-> subs[n].deviceId]]]
    /\ UNCHANGED <<notifications, pushSubs, lastNotifiedAt, poll, check, enable, disable, pushCount, detections, threw, pushDocs, pushResp, tokenVars, latestVars, connVars, clientVars>>

\* await webpush.sendNotification(...): delivered, endpoint gone (404/410)
\* or another failure.
SchedPushSend(r) ==
    /\ sched[r].pc = "send"
    /\ LET d   == sched[r].subs[sched[r].k].deviceId
           run == [sched[r] EXCEPT !.attempts = Append(@, d)]
       IN  \/ /\ pushCount' = [pushCount EXCEPT ![<<d, run.latest>>] = @ + 1]
              /\ sched' = [sched EXCEPT ![r] =
                    [run EXCEPT !.pc = "notified", !.sent = @ + 1]]
           \/ /\ sched' = [sched EXCEPT ![r] =
                    [run EXCEPT !.pc = "deactivate", !.failed = @ + 1]]
              /\ UNCHANGED pushCount
           \/ /\ sched' = [sched EXCEPT ![r] =
                    NextDevice(Outcome([run EXCEPT !.failed = @ + 1], "failed"))]
              /\ UNCHANGED pushCount
    /\ UNCHANGED <<notifications, pushSubs, lastNotifiedAt, poll, check, enable, disable, detections, threw, pushDocs, pushResp, tokenVars, latestVars, connVars, clientVars>>

\* await updateOne({_id}, {$set: {lastNotifiedAt}}) after a delivery; a
\* failure of this write lands in the same catch block as a failed delivery.
SchedPushNotified(r) ==
    /\ sched[r].pc = "notified"
    /\ LET run == sched[r]
           sub == run.subs[run.k]
           key == <<CurReg(run).registration, sub.deviceId>>
       IN  \/ /\ lastNotifiedAt' = IF sub.live /\ pushSubs[key] # "none"
                                   THEN [lastNotifiedAt EXCEPT ![key] = @ + 1]
                                   ELSE lastNotifiedAt
              /\ sched' = [sched EXCEPT ![r] = NextDevice(Outcome(run, "sent"))]
           \/ /\ sched' = [sched EXCEPT ![r] =
                    NextDevice(Outcome([run EXCEPT !.failed = @ + 1], "sentUnstamped"))]
              /\ UNCHANGED lastNotifiedAt
    /\ UNCHANGED <<notifications, pushSubs, poll, check, enable, disable, pushCount, detections, threw, pushDocs, pushResp, tokenVars, latestVars, connVars, clientVars>>

\* A catch block that deletes the subscription of an endpoint that is gone.
SchedPushDelete(r) ==
    /\ sched[r].pc = "deactivate"
    /\ LET run == sched[r]
           key == <<CurReg(run).registration, run.subs[run.k].deviceId>>
       IN  /\ pushSubs' = [pushSubs EXCEPT ![key] = "none"]
           /\ sched' = [sched EXCEPT ![r] = NextDevice(Outcome(run, "gone"))]
    /\ UNCHANGED <<notifications, lastNotifiedAt, poll, check, enable, disable, pushCount, detections, threw, pushDocs, pushResp, tokenVars, latestVars, connVars, clientVars>>

\* await updateOne({_id}, {$set: {active: false}}) inside the catch block; a
\* failure of this write leaves the for loop and the function.
SchedPushDeactivate(r) ==
    /\ sched[r].pc = "deactivate"
    /\ LET run == sched[r]
           sub == run.subs[run.k]
           key == <<CurReg(run).registration, sub.deviceId>>
       IN  \/ /\ sched' = [sched EXCEPT ![r] = AfterDispatch(Outcome(run, "goneLost"))]
              /\ UNCHANGED pushSubs
           \/ /\ pushSubs' = IF sub.live /\ pushSubs[key] # "none"
                             THEN [pushSubs EXCEPT ![key] = "inactive"]
                             ELSE pushSubs
              /\ sched' = [sched EXCEPT ![r] = NextDevice(Outcome(run, "gone"))]
    /\ UNCHANGED <<notifications, lastNotifiedAt, poll, check, enable, disable, pushCount, detections, threw, pushDocs, pushResp, tokenVars, latestVars, connVars, clientVars>>

\* ------------------------------------------- scheduler: the store writes

\* A $set that leaves updateDetails out.
DetectSetNoDetails(prev, latest, at, doc) ==
    [doc EXCEPT !.lastMotTestDate = latest, !.lastCheckedDate = "scheduled",
                !.hasUpdate = TRUE, !.updateDetectedAt = at]

\* The $set of a detected update: the new baseline, the pending flag and
\* the details, in one updateOne; `at` is its updateDetectedAt stamp.
DetectSet(prev, latest, at, doc) ==
    [doc EXCEPT !.lastMotTestDate = latest, !.lastCheckedDate = "scheduled",
                !.hasUpdate = TRUE, !.updateDetectedAt = at,
                !.updateDetails = Details(prev, latest)]

\* await collection.updateOne({registration}, {$set: {lastMotTestDate, ...,
\* hasUpdate: true, updateDetails}}) after the dispatch.
SchedWriteUpdate(r) ==
    /\ sched[r].pc = "writeUpdate"
    /\ LET run == sched[r]
           reg == CurReg(run)
       IN  \/ /\ sched' = [sched EXCEPT ![r] =
                    [run EXCEPT !.pc = "catch", !.latest = Null,
                                !.results = CountError(run.results)]]
              /\ threw' = [threw EXCEPT ![r] = @ \cup {CurPos(run)}]
              /\ UNCHANGED <<notifications, detections>>
           \/ /\ LET upd(doc) == DetectSet(reg.lastMotTestDate, run.latest,
                                            detections[reg.registration] + 1, doc)
                 IN  notifications' = UpdateOne(reg.registration, upd)
              /\ detections' = IF HasRecord(reg.registration)
                               THEN [detections EXCEPT ![reg.registration] = @ + 1]
                               ELSE detections
              /\ sched' = [sched EXCEPT ![r] =
                    Advance([run EXCEPT !.log = Append(@, LogEntry(run, "update"))])]
              /\ UNCHANGED threw
    /\ UNCHANGED <<pushSubs, lastNotifiedAt, poll, check, enable, disable, pushCount, pushDocs, pushResp, tokenVars, latestVars, connVars, clientVars>>

\* A no-update $set that also resets the pending flag.
CheckedSetClearsFlag(doc) == [doc EXCEPT !.lastCheckedDate = "scheduled", !.hasUpdate = FALSE]

\* The $set of a check that found nothing new: lastCheckedDate only.
CheckedSet(doc) == [doc EXCEPT !.lastCheckedDate = "scheduled"]

\* await collection.updateOne({registration}, {$set: {lastCheckedDate}}):
\* no tests upstream, or no update.
SchedWriteChecked(r) ==
    /\ sched[r].pc = "writeChecked"
    /\ LET run == sched[r]
       IN  \/ /\ sched' = [sched EXCEPT ![r] =
                    [run EXCEPT !.pc = "catch", !.latest = Null,
                                !.results = CountError(run.results)]]
              /\ threw' = [threw EXCEPT ![r] = @ \cup {CurPos(run)}]
              /\ UNCHANGED notifications
           \/ /\ notifications' = UpdateOne(CurReg(run).registration, CheckedSet)
              /\ sched' = [sched EXCEPT ![r] =
                    Advance([run EXCEPT !.log = Append(@, LogEntry(run, "checked"))])]
              /\ UNCHANGED threw
    /\ UNCHANGED <<pushSubs, lastNotifiedAt, poll, check, enable, disable, pushCount, detections, pushDocs, pushResp, tokenVars, latestVars, connVars, clientVars>>

\* The $set of the catch block: lastCheckedDate and lastCheckError.
CatchSet(doc) == [doc EXCEPT !.lastCheckedDate = "scheduled", !.lastCheckError = TRUE]

\* A catch block that rethrows: the run ends in the handler's outer catch.
SchedCatchFatal(r) ==
    /\ sched[r].pc = "catch"
    /\ sched' = [sched EXCEPT ![r] =
            SchedDone(sched[r], [statusCode |-> 500, results |-> NoResults])]
    /\ UNCHANGED <<notifications, pushSubs, lastNotifiedAt, poll, check, enable, disable, pushCount, detections, threw, pushDocs, pushResp, tokenVars, latestVars, connVars, clientVars>>

\* The catch block's write: updateOne({registration}, {$set: {lastCheckedDate,
\* lastCheckError}}), itself in a try/catch that only logs (dbError).
SchedCatch(r) ==
    /\ sched[r].pc = "catch"
    /\ LET run == sched[r]
       IN  \/ /\ notifications' = UpdateOne(CurReg(run).registration, CatchSet)
              /\ sched' = [sched EXCEPT ![r] =
                    Advance([run EXCEPT !.log = Append(@, LogEntry(run, "error"))])]
           \/ /\ sched' = [sched EXCEPT ![r] =
                    Advance([run EXCEPT !.log = Append(@, LogEntry(run, "lost"))])]
              /\ UNCHANGED notifications
    /\ UNCHANGED <<pushSubs, lastNotifiedAt, poll, check, enable, disable, pushCount, detections, threw, pushDocs, pushResp, tokenVars, latestVars, connVars, clientVars>>

\* The handler's steps when the vehicle has no device subscription, the
\* steps of the device loop, and the step between two batches.
SchedBody(r) ==
    \/ SchedFetch(r)
    \/ SchedPushLoad(r)
    \/ SchedWriteUpdate(r)
    \/ SchedWriteChecked(r)
    \/ SchedCatch(r)

SchedCore(r) == SchedStart(r) \/ SchedBody(r)

SchedPush(r) ==
    \/ SchedPushSend(r)
    \/ SchedPushNotified(r)
    \/ SchedPushDeactivate(r)

\* Between loading the vehicle list and returning the summary.
Running(r) == sched[r].pc \notin {"idle", "done"}

\* schedule('@hourly', handler) when every run ends before the next hour: an
\* invocation starts only while no other is running.
SchedStartSerial(r) ==
    /\ \A q \in Runs \ {r} : ~Running(q)
    /\ SchedStart(r)

\* ------------------------------------------------------- specifications

NoStore == [v \in Vehicles |-> <<>>]
NoSubs == [key \in Vehicles \X Devices |-> "none"]
NoPushes == [key \in Devices \X Dates |-> 0]

InitProcesses ==
    /\ InitTokenCold
    /\ InitLatestIdle
    /\ InitConnIdle
    /\ InitClientIdle
    /\ sched = [r \in Runs |-> SchedIdle]
    /\ poll = [p \in Pollers |-> PollIdle]
    /\ check = [c \in Checkers |-> CheckIdle]
    /\ enable = [e \in Enablers |-> EnableIdle]
    /\ disable = [x \in Disablers |-> DisableIdle]
    /\ pushCount = NoPushes
    /\ lastNotifiedAt = [key \in Vehicles \X Devices |-> 0]
    /\ pushDocs = [key \in Vehicles \X Devices |-> IF pushSubs[key] = "none" THEN 0 ELSE 1]
    /\ pushResp = [key \in Vehicles \X Devices |-> NoPushResp]
    /\ detections = [v \in Vehicles |-> 0]
    /\ threw = [r \in Runs |-> {}]

\* The deployed system before any request: both collections empty.
Init ==
    /\ notifications = NoStore
    /\ pushSubs = NoSubs
    /\ InitProcesses

\* Requests of every kind for one registration, in any interleaving: one
\* subscribe, one unsubscribe, the subscriptions of one device, one scheduler
\* run, one poll and the on-demand checks.
Next ==
    \/ EnableFindOne(1, TheReg) \/ EnableFetch(1) \/ EnableInsert(1, TheReg)
    \/ Disable(1, TheReg)
    \/ PushSubscribe(TheReg, 1) \/ PushUnsubscribe(TheReg, 1)
    \/ SchedCore(1) \/ SchedPush(1)
    \/ PollFindOne(1, TheReg) \/ PollClaim(1, TheReg)
    \/ \E c \in Checkers : CheckFindOne(c, TheReg) \/ CheckFetch(c) \/ CheckWrite(c, TheReg)

Spec == Init /\ [][Next]_vars

\* A subscribed vehicle with any baseline, as enableNotification leaves it.
Subscribed(v) ==
    \E b \in DateOrNull : notifications = [NoStore EXCEPT ![v] = <<NewRecord(b)>>]

\* Scheduler runs against each other: the vehicle is subscribed, devices
\* come and go, NumRuns invocations of the scheduled handler interleave.
InitRuns ==
    /\ Subscribed(TheReg)
    /\ pushSubs = NoSubs
    /\ InitProcesses

NextRuns ==
    \/ PushSubscribe(TheReg, 1) \/ PushUnsubscribe(TheReg, 1)
    \/ \E r \in Runs : SchedCore(r) \/ SchedPush(r)

SpecRuns == InitRuns /\ [][NextRuns]_vars

\* Scheduler runs one after the other, as the hourly schedule starts them:
\* the vehicle is subscribed, devices come and go.
NextSerial ==
    \/ PushSubscribe(TheReg, 1) \/ PushUnsubscribe(TheReg, 1)
    \/ \E r \in Runs : SchedStartSerial(r) \/ SchedBody(r) \/ SchedPush(r)

SpecSerial == InitRuns /\ [][NextSerial]_vars

\* Scheduler runs against polls: the vehicle is subscribed and has no device
\* subscription; NumRuns invocations of the scheduled handler and NumPollers
\* poll requests interleave.
NextClaim ==
    \/ \E r \in Runs : SchedCore(r)
    \/ \E p \in Pollers : PollFindOne(p, TheReg) \/ PollClaim(p, TheReg)

SpecClaim == InitRuns /\ [][NextClaim]_vars

\* The same with poll requests that are served: a request that has arrived
\* gets its store calls answered.
SpecClaimLive ==
    /\ SpecClaim
    /\ WF_vars(\E p \in Pollers : PollFindOne(p, TheReg) \/ PollClaim(p, TheReg))

\* Concurrent pollers: a record with a pending update, as a detection write
\* leaves it, and NumPollers poll requests; nothing else runs.
PendingRecord(prev, new) ==
    [NewRecord(new) EXCEPT !.hasUpdate = TRUE, !.updateDetails = Details(prev, new),
                           !.lastCheckedDate = "scheduled", !.updateDetectedAt = 0]

InitPoll ==
    /\ \E new \in Dates : \E prev \in 0..(new - 1) :
          notifications = [NoStore EXCEPT ![TheReg] = <<PendingRecord(prev, new)>>]
    /\ pushSubs = NoSubs
    /\ InitProcesses

NextPoll == \E p \in Pollers : PollFindOne(p, TheReg) \/ PollClaim(p, TheReg)

SpecPoll == InitPoll /\ [][NextPoll]_vars

\* One scheduler run over n subscribed vehicles, n = 0..MaxVehicles, all with
\* the same recent baseline; the first vehicle may have the subscription of
\* one device (the device loop over several devices is SpecDispatch's).
InitBatch ==
    /\ \E n \in 0..MaxVehicles : \E b \in {MaxDate - 1, MaxDate} :
          notifications = [v \in Vehicles |-> IF v <= n THEN <<NewRecord(b)>> ELSE <<>>]
    /\ \E active \in SUBSET {d \in Devices : d = 1} :
          pushSubs = [key \in Vehicles \X Devices |->
                        IF key[1] = TheReg /\ key[2] \in active THEN "active" ELSE "none"]
    /\ InitProcesses

NextBatch == SchedCore(1) \/ SchedPush(1) \/ SchedDelay(1)

SpecBatch == InitBatch /\ [][NextBatch]_vars

\* One scheduler run over one subscribed vehicle whose devices hold
\* subscriptions, active or deactivated.
InitDispatch ==
    /\ Subscribed(TheReg)
    /\ \E st \in [Devices -> {"active", "inactive"}] :
          pushSubs = [key \in Vehicles \X Devices |->
                        IF key[1] = TheReg THEN st[key[2]] ELSE "none"]
    /\ InitProcesses

NextDispatch == SchedCore(1) \/ SchedPush(1)

SpecDispatch == InitDispatch /\ [][NextDispatch]_vars

\* The store as the token manager scenario leaves it: untouched.
InitStore ==
    /\ notifications = NoStore
    /\ pushSubs = NoSubs
    /\ sched = [r \in Runs |-> SchedIdle]
    /\ poll = [p \in Pollers |-> PollIdle]
    /\ check = [c \in Checkers |-> CheckIdle]
    /\ enable = [e \in Enablers |-> EnableIdle]
    /\ disable = [x \in Disablers |-> DisableIdle]
    /\ pushCount = NoPushes
    /\ lastNotifiedAt = [key \in Vehicles \X Devices |-> 0]
    /\ pushDocs = [key \in Vehicles \X Devices |-> 0]
    /\ pushResp = [key \in Vehicles \X Devices |-> NoPushResp]
    /\ detections = [v \in Vehicles |-> 0]
    /\ threw = [r \in Runs |-> {}]

\* NumCallers getAccessToken calls in one container, started at any moments
\* of MaxTicks ticks. The container is cold, or warm with the token of an
\* earlier call that started at tick 0 .. MaxTicks - 1, so that the token is
\* expired at the start or expires during the scenario.
InitToken ==
    /\ InitStore
    /\ InitLatestIdle
    /\ InitConnIdle
    /\ InitClientIdle
    /\ \/ /\ cachedToken = Null /\ tokenExpiry = Null /\ issued = 0
       \/ /\ cachedToken = 1 /\ issued = 1
          /\ \E start \in 0..(MaxTicks - 1) : tokenExpiry = start + TokenLifetime
    /\ tokenRenewalInProgress = FALSE
    /\ clock = FirstTick
    /\ call = [c \in Callers |-> CallIdle]

NextToken ==
    \/ \E c \in Callers : GetAccessToken(c) \/ WaitWake(c) \/ ExchangeOk(c) \/ ExchangeFail(c)
    \/ Tick

SpecToken == InitToken /\ [][NextToken]_vars

\* The same with the scheduling the runtime gives: an axios.post is answered
\* or times out, a setTimeout fires, and time passes.
SpecTokenLive ==
    /\ SpecToken
    /\ WF_vars(\E c \in Callers : ExchangeOk(c) \/ ExchangeFail(c))
    /\ WF_vars(\E c \in Callers : WaitWake(c))
    /\ WF_vars(Tick)

\* getLatestMotTest applied once to each list of up to MaxListLen tests
\* with timestamps 1..MaxStamp, in every order and with repeated timestamps.
InitLatest ==
    /\ InitStore
    /\ InitTokenCold
    /\ InitConnIdle
    /\ InitClientIdle
    /\ motTests \in LatestInputs
    /\ latestMotTest = NotReturned

SpecLatest == InitLatest /\ [][ApplyGetLatestMotTest]_vars

\* Push subscribe and unsubscribe calls of every device for one subscribed
\* vehicle, in any order and number, around one scheduler run whose dispatch
\* deactivates and stamps the subscriptions it finds.
NextPushSubs ==
    \/ \E d \in Devices : PushSubscribe(TheReg, d) \/ PushUnsubscribe(TheReg, d)
    \/ SchedCore(1) \/ SchedPush(1)

SpecPushSubs == InitRuns /\ [][NextPushSubs]_vars

\* One scheduler run over one vehicle whose record is fresh or has an update
\* pending, with the device subscriptions of SpecDispatch.
InitFrame ==
    /\ \/ Subscribed(TheReg)
       \/ \E new \in Dates : \E prev \in 0..(new - 1) :
             notifications = [NoStore EXCEPT ![TheReg] = <<PendingRecord(prev, new)>>]
    /\ \E st \in [Devices -> {"active", "inactive"}] :
          pushSubs = [key \in Vehicles \X Devices |->
                        IF key[1] = TheReg THEN st[key[2]] ELSE "none"]
    /\ InitProcesses

SpecFrame == InitFrame /\ [][NextDispatch]_vars

\* Subscribe and unsubscribe requests for one registration, in any
\* interleaving, on a store that has no record of it or one record in any
\* state.
InitSubscribe ==
    /\ \/ notifications = NoStore
       \/ Subscribed(TheReg)
       \/ \E prev \in DateOrNull, new \in Dates :
             notifications = [NoStore EXCEPT ![TheReg] = <<PendingRecord(prev, new)>>]
    /\ pushSubs = NoSubs
    /\ InitProcesses

NextSubscribe ==
    \/ \E e \in Enablers : EnableFindOne(e, TheReg) \/ EnableFetch(e) \/ EnableInsert(e, TheReg)
    \/ \E x \in Disablers : Disable(x, TheReg)

SpecSubscribe == InitSubscribe /\ [][NextSubscribe]_vars

\* NumConnectors connectToDatabase calls in one container, overlapping in
\* any way. The container is cold, or warm with the connection of an earlier
\* call (client 1); MONGODB_URI is set or not, and a warm container has it.
InitConn ==
    /\ InitStore
    /\ InitTokenCold
    /\ InitLatestIdle
    /\ InitClientIdle
    /\ uri \in BOOLEAN
    /\ cachedDb \in (IF uri THEN {Null, 1} ELSE {Null})
    /\ clients = (IF cachedDb = Null THEN 0 ELSE 1)
    /\ conn = [c \in Connectors |-> ConnIdle]

NextConn ==
    \E c \in Connectors :
        \/ ConnectToDatabase(c) \/ PingOk(c) \/ PingFail(c)
        \/ ConnectOk(c) \/ ConnectFail(c) \/ CommandOk(c) \/ CommandFail(c)
        \/ RetryConnect(c)

SpecConn == InitConn /\ [][NextConn]_vars

\* One page: up to MaxStarts startPolling calls for NumRegs registrations,
\* with and without an onPollComplete callback, stopPolling and stopAll
\* calls at any moment, timers firing and up to MaxPolls polls ending in
\* every way.
InitClient ==
    /\ InitStore
    /\ InitTokenCold
    /\ InitLatestIdle
    /\ InitConnIdle
    /\ InitClientIdle

NextClient ==
    \/ \E reg \in Regs, onPollComplete \in BOOLEAN : StartPolling(reg, onPollComplete)
    \/ \E reg \in Regs : StopPolling(reg)
    \/ StopAll
    \/ \E g \in 1..MaxStarts : TimerFires(g)
    \/ \E p \in 1..MaxPolls, outcome \in Outcomes : PollAnswered(p, outcome)

SpecClient == InitClient /\ [][NextClient]_vars

\* ------------------------------------------------------------- properties

TrueResponses == {p \in Pollers : poll[p].resp.status = 200 /\ poll[p].resp.hasUpdate}
FalseResponses == {p \in Pollers : poll[p].resp.status = 200 /\ ~poll[p].resp.hasUpdate}
AllPolled == \A p \in Pollers : poll[p].pc = "done"

\* C1 (SpecPoll): a record with hasUpdate = true and no other writer: once
\* the NumPollers concurrent poll requests have all answered, at most one
\* response has hasUpdate:true, and when every request ran both of its store
\* operations (all answered 200) exactly one response has hasUpdate:true and
\* the other NumPollers - 1 have hasUpdate:false.
C1_ExactlyOneClaim ==
    AllPolled =>
        /\ Cardinality(TrueResponses) <= 1
        /\ (\A p \in Pollers : poll[p].resp.status = 200) =>
              /\ Cardinality(TrueResponses) = 1
              /\ Cardinality(FalseResponses) = NumPollers - 1

C1_Witness ==
    /\ AllPolled
    /\ \A p \in Pollers : poll[p].resp.status = 200
    /\ Cardinality(TrueResponses) = 1
    /\ Cardinality(FalseResponses) = NumPollers - 1

\* Is an update pending in the store for v?
Pending(v) == FirstPending(v) # 0

\* C2 (SpecClaim): the poll responses with hasUpdate:true never outnumber the
\* scheduler writes that set hasUpdate = true, and while the flag is set one
\* of those writes is still unclaimed: once every detection has been claimed
\* the flag is clear, so a later poll answers hasUpdate:false until a new
\* detection is written.
C2_ClaimsWithinDetections ==
    Cardinality(TrueResponses) + (IF Pending(TheReg) THEN 1 ELSE 0) <= detections[TheReg]

C2_Witness ==
    /\ detections[TheReg] = 2
    /\ Cardinality(TrueResponses) = 2
    /\ Cardinality(FalseResponses) >= 1

\* C3 (SpecSerial): webpush.sendNotification is invoked at most once per
\* (device, new test date), over all scheduler runs.
C3_AtMostOnePush == \A key \in Devices \X Dates : pushCount[key] <= 1

\* C4 (Spec): the lastMotTestDate of a stored record never changes to an
\* earlier date or back to null.
C4_BaselineNeverRegresses ==
    [][\A v \in Vehicles :
          (Len(notifications[v]) = Len(notifications'[v])) =>
              \A n \in 1..Len(notifications[v]) :
                  notifications[v][n].lastMotTestDate # Null =>
                      /\ notifications'[v][n].lastMotTestDate # Null
                      /\ GetTime(notifications'[v][n].lastMotTestDate)
                            >= GetTime(notifications[v][n].lastMotTestDate)]_vars

\* The step in which run r decides that its vehicle has an update.
ClassifiesUpdate(r) == sched[r].pc = "item" /\ sched'[r].pc = "dispatch"

\* C5 (Spec): when a scheduler pass processes a vehicle whose stored
\* lastMotTestDate is D and the upstream latest date is earlier than or equal
\* to D, the pass does not classify it as an update (so it writes none of
\* lastMotTestDate, hasUpdate, updateDetails, does not count it as updated
\* and dispatches no push).
C5_NoChangeWhenNotNewer ==
    [][\A r \in Runs :
          ClassifiesUpdate(r) =>
              LET v == CurReg(sched[r]).registration
              IN  (HasRecord(v) /\ FindOne(v).lastMotTestDate # Null) =>
                      GetTime(sched'[r].latest) > GetTime(FindOne(v).lastMotTestDate)]_vars

\* C6 (Spec): in every reachable state every record with hasUpdate = true has
\* updateDetails.
C6_PendingHasDetails ==
    \A v \in Vehicles : \A n \in 1..Len(notifications[v]) :
        notifications[v][n].hasUpdate => notifications[v][n].updateDetails # NoDetails

C6_Witness ==
    /\ Pending(TheReg)
    /\ FindOne(TheReg).updateDetails # NoDetails
    /\ detections[TheReg] = 1

\* C7 (Spec): whenever a record has hasUpdate = true, updateDetails.newDate is
\* the record's current lastMotTestDate.
C7_DetailsNotStale ==
    \A v \in Vehicles : \A n \in 1..Len(notifications[v]) :
        notifications[v][n].hasUpdate =>
            notifications[v][n].updateDetails.newDate = notifications[v][n].lastMotTestDate

\* The classification the claim states, over (latest, baseline).
IsUpdate(latest, baseline) ==
    CASE latest = Null -> FALSE
      [] latest # Null /\ baseline = Null -> TRUE
      [] OTHER -> latest > baseline

\* C8 (Spec): the scheduler's decision for (latest upstream date, baseline):
\* a run that went on to dispatch saw an update by the stated classification
\* (first observation, or latest strictly greater by full timestamp), a run
\* that went on to the lastCheckedDate-only write saw none (latest null, or
\* latest not greater than the baseline).
C8_Classification ==
    \A r \in Runs :
        /\ sched[r].pc = "dispatch" =>
              IsUpdate(sched[r].latest, CurReg(sched[r]).lastMotTestDate)
        /\ sched[r].pc = "writeChecked" =>
              ~IsUpdate(sched[r].latest, CurReg(sched[r]).lastMotTestDate)

\* The pairs of the matrix that are decided by the comparison: a later tick
\* of the same day is an update, an equal or earlier date is none.
C8_Witness ==
    \E r \in Runs :
        /\ sched[r].pc = "dispatch"
        /\ CurReg(sched[r]).lastMotTestDate # Null
        /\ sched[r].latest > CurReg(sched[r]).lastMotTestDate
        /\ DayOf(sched[r].latest) = DayOf(CurReg(sched[r]).lastMotTestDate)

\* C9 (SpecRuns): two invocations of the scheduled handler are never both
\* between loading the vehicle list and returning their summary.
C9_NoOverlap == \A r1, r2 \in Runs : (Running(r1) /\ Running(r2)) => r1 = r2

\* Enabled vehicles in the store (it does not change during a batch run).
NumEnabled == Cardinality({v \in Vehicles : HasRecord(v)})

\* C10 (SpecBatch): a completed run over n >= 1 enabled vehicles reports
\* total = n and checked = n whatever failed, errors = the number of vehicles
\* whose processing threw, and processed them in ceil(n/3) batches of 1 to 3
\* vehicles (7 vehicles: 3, 3, 1).
C10_Summary ==
    (sched[1].pc = "done" /\ sched[1].summary.statusCode = 200 /\ NumEnabled >= 1) =>
        LET res == sched[1].summary.results
            b   == sched[1].batches
        IN  /\ res.total = NumEnabled
            /\ res.checked = NumEnabled
            /\ res.errors = Cardinality(threw[1])
            /\ Len(b) = (NumEnabled + 2) \div 3
            /\ \A k \in 1..Len(b) : b[k] \in 1..3
            /\ NumEnabled = 7 => b = <<3, 3, 1>>

\* C10 as stated, for every n >= 0: a completed run reports total = n and
\* checked = n.
C10_SummaryAnyN ==
    (sched[1].pc = "done" /\ sched[1].summary.statusCode = 200) =>
        /\ sched[1].summary.results.total = NumEnabled
        /\ sched[1].summary.results.checked = NumEnabled

C10_Witness ==
    /\ sched[1].pc = "done"
    /\ NumEnabled = 7
    /\ sched[1].summary.results.checked = 7
    /\ sched[1].summary.results.errors = 2
    /\ sched[1].batches = <<3, 3, 1>>

\* The entries of run r's log for list position pos.
LogOf(r, pos) == {k \in 1..Len(sched[r].log) : sched[r].log[k].pos = pos}

\* C11 (SpecBatch): a failure while processing one vehicle is not fatal to
\* the run: the run never fetches a vehicle twice and visits the list in
\* order; a 500 comes only from before the loop; a started run can always
\* take a step; and a completed run has fetched every vehicle of its list
\* exactly once and made exactly one closing write per vehicle, which for a
\* vehicle that threw is the catch block's write of lastCheckedDate with
\* lastCheckError (stored on the record unless that write itself failed and
\* was logged).
C11_ErrorIsolation ==
    LET run == sched[1]
    IN  /\ \A k \in 1..Len(run.fetched) : run.fetched[k] = k
        /\ (run.pc = "done" /\ run.summary.statusCode = 500) => run.fetched = <<>>
        /\ run.pc \notin {"idle", "done"} => ENABLED NextBatch
        /\ (run.pc = "done" /\ run.summary.statusCode = 200 /\ NumEnabled >= 1) =>
              /\ Len(run.fetched) = NumEnabled
              /\ \A pos \in 1..NumEnabled :
                    /\ Cardinality(LogOf(1, pos)) = 1
                    /\ \A k \in LogOf(1, pos) :
                          /\ pos \in threw[1] <=> run.log[k].kind \in {"error", "lost"}
                          /\ run.log[k].kind = "error" => FindOne(pos).lastCheckError

C11_Witness ==
    /\ sched[1].pc = "done"
    /\ NumEnabled = 4
    /\ threw[1] = {2}
    /\ sched[1].fetched = <<1, 2, 3, 4>>
    /\ \E k \in LogOf(1, 2) : sched[1].log[k].kind = "error"
    /\ FindOne(2).lastCheckError
    /\ \A pos \in {1, 3, 4} : \E k \in LogOf(1, pos) : sched[1].log[k].kind \in {"update", "checked"}

\* C12 (SpecDispatch): in a dispatch every loaded subscription gets exactly
\* one delivery attempt: the attempts follow the loaded list one by one, and
\* when the dispatch is over every loaded device has been attempted.
C12_EveryDeviceAttempted ==
    \A r \in Runs :
        /\ Len(sched[r].attempts) <= Len(sched[r].loaded)
        /\ \A k \in 1..Len(sched[r].attempts) : sched[r].attempts[k] = sched[r].loaded[k]
        /\ sched[r].pc = "writeUpdate" => sched[r].attempts = sched[r].loaded

\* The device iterations of run r's dispatch that ended in one of `kinds`.
OutcomesIn(r, kinds) == {k \in 1..Len(sched[r].outcomes) : sched[r].outcomes[k] \in kinds}

\* C13 (SpecDispatch): after a device's iteration, a 404/410 from the push
\* service has left its subscription in the store with active = false, any
\* other failure has left it active, a delivery has written lastNotifiedAt
\* (each unless the store write itself failed); no device is attempted
\* twice; and the dispatch's results count every device that was not
\* delivered to as failed and every delivery as sent.
C13_DeliveryOutcomes ==
    \A r \in Runs :
        LET run == sched[r]
        IN  /\ Len(run.outcomes) <= Len(run.attempts)
            /\ \A a, b \in 1..Len(run.attempts) : run.attempts[a] = run.attempts[b] => a = b
            /\ \A k \in 1..Len(run.outcomes) :
                  LET key == <<TheReg, run.attempts[k]>>
                  IN  /\ run.outcomes[k] = "gone" => pushSubs[key] = "inactive"
                      /\ run.outcomes[k] \in {"failed", "goneLost", "sentUnstamped"} =>
                            pushSubs[key] = "active"
                      /\ run.outcomes[k] = "sent" =>
                            pushSubs[key] = "active" /\ lastNotifiedAt[key] >= 1
            /\ run.pc = "writeUpdate" =>
                  /\ run.sent = Cardinality(OutcomesIn(r, {"sent", "sentUnstamped"}))
                  /\ run.failed = Cardinality(OutcomesIn(r,
                                      {"gone", "goneLost", "failed", "sentUnstamped"}))

C13_Witness ==
    /\ sched[1].pc = "writeUpdate"
    /\ sched[1].outcomes = <<"gone", "sent">>
    /\ pushSubs[<<TheReg, 1>>] = "inactive"
    /\ pushSubs[<<TheReg, 2>>] = "active"
    /\ lastNotifiedAt[<<TheReg, 2>>] = 1
    /\ sched[1].sent = 1
    /\ sched[1].failed = 1

\* C14 (Spec): the first store operation of a poll for a vehicle that has no
\* record ends the request with 404 (500 when the store call itself fails)
\* and writes nothing; a poll for a vehicle that has a record never answers
\* 404, so 404 is distinct from the 200 hasUpdate:false of a subscribed
\* vehicle.
C14_NotFound ==
    [][\A p \in Pollers :
          (poll[p].pc = "idle" /\ poll'[p] # poll[p]) =>
              IF HasRecord(TheReg)
              THEN poll'[p].resp.status # 404
              ELSE /\ poll'[p].pc = "done"
                   /\ poll'[p].resp.status \in {404, 500}
                   /\ notifications' = notifications]_vars

C14_Witness ==
    /\ ~HasRecord(TheReg)
    /\ poll[1].pc = "done"
    /\ poll[1].resp.status = 404
    /\ ~poll[1].resp.hasUpdate

\* C15 (SpecPoll): every 200 response of the poll endpoint carries the
\* record's lastCheckedDate and its lastMotTestDate, whether or not the poll
\* claimed the update.
C15_ResponseCarriesDates ==
    \A p \in Pollers :
        poll[p].resp.status = 200 =>
            /\ poll[p].resp.lastCheckedDate
            /\ poll[p].resp.lastMotTestDate # Absent

\* C16 (SpecSubscribe): a subscribe request whose findOne finds a record
\* ends there: it answers 200 (500 when the store call fails) without
\* initialState, has made no upstream fetch and leaves the store as it was.
C16_IdempotentSubscribe ==
    [][\A e \in Enablers :
          (enable[e].pc = "idle" /\ enable'[e] # enable[e] /\ HasRecord(TheReg)) =>
              /\ enable'[e].pc = "done"
              /\ enable'[e].status \in {200, 500}
              /\ enable'[e].fetch = "no"
              /\ ~enable'[e].created
              /\ notifications' = notifications]_vars

C16_Witness ==
    /\ \A e \in Enablers : enable[e].pc = "done" /\ enable[e].status = 200 /\ ~enable[e].created
    /\ \A x \in Disablers : disable[x].pc = "idle"
    /\ Len(notifications[TheReg]) = 1
    /\ FindOne(TheReg).hasUpdate

\* C17 (SpecSubscribe): the notifications store never holds two records of
\* one registration.
C17_OneRecordPerRegistration == \A v \in Vehicles : Len(notifications[v]) <= 1

\* C18 (Spec): a failed baseline fetch does not end the subscribe request:
\* it goes on to insert a record with enabled = true and lastMotTestDate =
\* null and answers 200 (500 only when the insert itself fails); a scheduler
\* pass that loaded a null baseline and finds an upstream test classifies
\* an update, and its write sets the baseline to that test, hasUpdate and
\* updateDetails with previousDate null.
C18_NullBaselineSelfCorrects ==
    [][/\ \A e \in Enablers :
             /\ (enable[e].pc = "fetch" /\ enable'[e] # enable[e]) =>
                   /\ enable'[e].pc = "insert"
                   /\ enable'[e].fetch = "failed" => enable'[e].initial = Null
             /\ (enable[e].pc = "insert" /\ enable'[e] # enable[e]) =>
                   \/ enable'[e].status = 500 /\ notifications' = notifications
                   \/ /\ enable'[e].status = 200 /\ enable'[e].created
                      /\ enable'[e].initial = enable[e].initial
                      /\ notifications'[TheReg] =
                            Append(notifications[TheReg], NewRecord(enable[e].initial))
                      /\ NewRecord(enable[e].initial).enabled
       /\ \A r \in Runs :
             /\ (sched[r].pc = "item" /\ sched'[r].pc \in {"dispatch", "writeChecked"}
                 /\ CurReg(sched[r]).lastMotTestDate = Null) =>
                   (sched'[r].pc = "dispatch" <=> sched'[r].latest # Null)
             /\ (sched[r].pc = "writeUpdate" /\ Len(sched'[r].log) > Len(sched[r].log)
                 /\ HasRecord(CurReg(sched[r]).registration)) =>
                   LET doc == notifications'[CurReg(sched[r]).registration][1]
                   IN  /\ doc.lastMotTestDate = sched[r].latest
                       /\ doc.hasUpdate
                       /\ doc.updateDetails =
                             Details(CurReg(sched[r]).lastMotTestDate, sched[r].latest)]_vars

C18_Witness ==
    /\ enable[1].pc = "done" /\ enable[1].status = 200
    /\ enable[1].fetch = "failed" /\ enable[1].created /\ enable[1].initial = Null
    /\ sched[1].pc = "done" /\ sched[1].log = <<[pos |-> 1, kind |-> "update"]>>
    /\ check[1].pc = "idle" /\ disable[1].pc = "idle"
    /\ HasRecord(TheReg)
    /\ FindOne(TheReg).lastMotTestDate # Null
    /\ FindOne(TheReg).hasUpdate
    /\ FindOne(TheReg).updateDetails.previousDate = Null

\* C19 (SpecSubscribe): an unsubscribe request whose store call does not
\* fail answers 404 and leaves the store unchanged when the registration has
\* no record, and otherwise deletes a record and answers 200, after which the
\* registration has no record (an immediate second call answers 404).
C19_Unsubscribe ==
    [][\A x \in Disablers :
          (disable[x].pc = "idle" /\ disable'[x] # disable[x] /\ ~disable'[x].threw) =>
              IF HasRecord(TheReg)
              THEN /\ disable'[x].status = 200
                   /\ Len(notifications'[TheReg]) = Len(notifications[TheReg]) - 1
                   /\ ~HasRecord(TheReg)'
              ELSE /\ disable'[x].status = 404
                   /\ notifications' = notifications]_vars

PushSubscribed == [kind |-> "subscribe", status |-> 200]
PushUnsubscribed == [kind |-> "unsubscribe", status |-> 200]
PushNotFound == [kind |-> "unsubscribe", status |-> 404]

\* C20 (SpecPushSubs): the push_subscriptions collection never holds more
\* than one document per (registration, deviceId); a push subscribe answered
\* 200 leaves exactly one document for the pair, with active = true and
\* lastNotifiedAt = null, whether or not the pair had a document; a push
\* unsubscribe answers 200 exactly when the pair had a document, which it
\* removes, and 404 when it had none, changing nothing; and nothing but a
\* subscribe adds a document, nothing but an unsubscribe removes one.
C20_OneRecordPerDevice ==
    [][\A key \in Vehicles \X Devices :
          /\ pushDocs'[key] <= 1
          /\ (pushResp'[key] # pushResp[key] /\ pushResp'[key] = PushSubscribed) =>
                /\ pushDocs'[key] = 1
                /\ pushSubs'[key] = "active"
                /\ lastNotifiedAt'[key] = 0
          /\ (pushResp'[key] # pushResp[key] /\ pushResp'[key] = PushUnsubscribed) =>
                /\ pushDocs[key] >= 1
                /\ pushDocs'[key] = 0
                /\ pushSubs'[key] = "none"
          /\ (pushResp'[key] # pushResp[key] /\ pushResp'[key] = PushNotFound) =>
                /\ pushDocs[key] = 0
                /\ pushDocs'[key] = 0
                /\ pushSubs'[key] = "none"
          /\ pushDocs'[key] > pushDocs[key] => pushResp'[key] = PushSubscribed
          /\ pushDocs'[key] < pushDocs[key] => pushResp'[key] = PushUnsubscribed
          /\ (pushDocs'[key] = 0) = (pushSubs'[key] = "none")]_vars

\* After the dispatch, device 1's deactivated subscription was subscribed
\* again, device 2's was removed and a second unsubscribe found nothing.
C20_Witness ==
    /\ sched[1].pc = "writeUpdate"
    /\ sched[1].attempts = <<1, 2>>
    /\ sched[1].outcomes = <<"gone", "sent">>
    /\ pushResp[<<TheReg, 1>>] = PushSubscribed
    /\ pushSubs[<<TheReg, 1>>] = "active"
    /\ pushDocs[<<TheReg, 1>>] = 1
    /\ pushResp[<<TheReg, 2>>] = PushNotFound
    /\ pushDocs[<<TheReg, 2>>] = 0

\* C21 (SpecToken): at most one credential exchange is in flight at any
\* time, and the renewal flag is set exactly while one is; a call that
\* finds the cache invalid while the flag is set starts waiting, and a
\* waiting call never issues an exchange of its own: it ends by returning or
\* throwing.
C21_SingleFlight ==
    [][/\ Cardinality(InFlight') <= 1
       /\ tokenRenewalInProgress' = (InFlight' # {})
       /\ \A c \in Callers :
            /\ (call[c].pc = "idle" /\ call'[c].pc # "idle"
                  /\ ~CacheValid(clock) /\ tokenRenewalInProgress) =>
                     call'[c].pc = "waiting"
            /\ call[c].pc = "waiting" =>
                  call'[c].pc \in {"waiting", "returned", "threw"}]_vars

\* One exchange in flight and two calls waiting on it.
C21_Witness ==
    /\ call[1].pc = "exchanging"
    /\ call[2].pc = "waiting"
    /\ call[3].pc = "waiting"
    /\ tokenRenewalInProgress

\* C22 (SpecTokenLive): every getAccessToken call that has started ends. A
\* waiting call ends once the flag is clear or maxWait has passed, at most
\* maxWait after it started waiting, with the cached token when the cache is
\* then valid and with 'Token renewal failed or timed out' otherwise; and the
\* step that ends an exchanging call, answered or failed, clears the flag.
C22_Terminates ==
    /\ \A c \in Callers :
          (call[c].pc # "idle") ~> (call[c].pc \in {"returned", "threw"})
    /\ [][\A c \in Callers :
            /\ call[c].pc = "waiting" => clock - call[c].startTime <= MaxWaitTicks
            /\ (call[c].pc = "waiting" /\ call'[c].pc # "waiting") =>
                  /\ ~tokenRenewalInProgress \/ clock - call[c].startTime >= MaxWaitTicks
                  /\ IF CacheValid(clock)
                     THEN call'[c].pc = "returned" /\ call'[c].result = cachedToken
                     ELSE call'[c].pc = "threw" /\ call'[c].error = "renewal"
            /\ (call[c].pc = "exchanging" /\ call'[c].pc # "exchanging") =>
                  /\ call'[c].pc \in {"returned", "threw"}
                  /\ ~tokenRenewalInProgress']_vars

\* Call 1 waited out maxWait while exchanges followed one another and threw
\* with call 4's still in flight; the exchanges of calls 2 and 3 had failed.
C22_Witness ==
    /\ call[1].pc = "threw" /\ call[1].error = "renewal"
    /\ call[1].ended - call[1].startTime = MaxWaitTicks
    /\ call[4].pc = "exchanging" /\ call[4].now < call[1].ended
    /\ call[2].pc = "threw" /\ call[2].error = "auth"
    /\ call[3].pc = "threw" /\ call[3].error = "auth"

\* C23 (SpecToken): a getAccessToken call that finds a cached token and
\* now < tokenExpiry returns that token in its first step, with no exchange
\* and no change to the cache; a call starts an exchange only when there is
\* no cached token or now >= tokenExpiry; and the step in which an exchange
\* is answered sets tokenExpiry to 55 minutes after the tick the call
\* started at, however long the exchange took.
C23_CacheValidity ==
    [][\A c \in Callers :
          /\ (call[c].pc = "idle" /\ call'[c].pc # "idle") =>
                IF cachedToken # Null /\ clock < tokenExpiry
                THEN /\ call'[c].pc = "returned"
                     /\ call'[c].result = cachedToken
                     /\ InFlight' = InFlight
                     /\ UNCHANGED <<cachedToken, tokenExpiry, tokenRenewalInProgress, issued>>
                ELSE /\ call'[c].pc \in {"exchanging", "waiting"}
                     /\ call'[c].now = clock
          /\ (call[c].pc # "exchanging" /\ call'[c].pc = "exchanging") =>
                (cachedToken = Null \/ clock >= tokenExpiry)
          /\ (call[c].pc = "exchanging" /\ call'[c].pc = "returned") =>
                /\ cachedToken' = call'[c].result
                /\ cachedToken' # cachedToken
                /\ tokenExpiry' = call[c].now + (55 * 60 * 1000) \div TickMs]_vars

\* Call 1 found the cached token expired and renewed it in an exchange that
\* took a tick; call 2 then got the renewed token from the cache.
C23_Witness ==
    /\ issued = 2
    /\ call[1].pc = "returned" /\ call[1].result = 2
    /\ call[1].ended = call[1].now + 1
    /\ tokenExpiry = call[1].now + TokenLifetime
    /\ call[2].pc = "returned" /\ call[2].result = 2
    /\ call[2].now = Null
    /\ call[2].ended > call[1].ended
    /\ call[3].pc = "idle" /\ call[4].pc = "idle"

\* C24 (SpecToken): the step in which an exchange fails ends the call with
\* 'Failed to authenticate with MOT API', leaves cachedToken and tokenExpiry
\* as they were and clears the renewal flag; and a call that starts while
\* the cache is invalid and no exchange is in flight, as after a failure,
\* starts an exchange of its own instead of waiting.
C24_FailedExchange ==
    [][\A c \in Callers :
          /\ (call[c].pc = "exchanging" /\ call'[c].pc = "threw") =>
                /\ call'[c].error = "auth"
                /\ call'[c].result = Null
                /\ UNCHANGED <<cachedToken, tokenExpiry, issued>>
                /\ ~tokenRenewalInProgress'
          /\ (call[c].pc = "idle" /\ call'[c].pc # "idle"
                /\ ~CacheValid(clock) /\ InFlight = {}) =>
                /\ call'[c].pc = "exchanging"
                /\ tokenRenewalInProgress']_vars

\* Call 1's exchange failed on an expired cache, which still holds the old
\* token; call 2, started after that, is exchanging.
C24_Witness ==
    /\ call[1].pc = "threw" /\ call[1].error = "auth"
    /\ cachedToken = 1 /\ tokenExpiry <= call[1].now
    /\ call[2].pc = "exchanging" /\ call[2].now >= call[1].ended
    /\ tokenRenewalInProgress
    /\ call[3].pc = "idle" /\ call[4].pc = "idle"

\* C25 (SpecBatch): a run processes its snapshot in order, one vehicle at a
\* time. While it is at list position p, every position before p has had its
\* closing write and none after p has been touched, and the run has sat out
\* one delay per batch that precedes p's; it waits in a delay only when all
\* vehicles of the batches so far are closed and more vehicles remain; and a
\* completed run has sat out one delay less than it had batches, so none
\* after the last.
C25_BatchOrder ==
    LET run == sched[1]
        closed == {run.log[k].pos : k \in 1..Len(run.log)}
    IN  /\ \A k \in 1..Len(run.log) : run.log[k].pos = k
        /\ run.pc \notin {"idle", "done", "delay"} =>
              /\ closed \in {1..(CurPos(run) - 1), 1..CurPos(run)}
              /\ Len(run.fetched) \in {CurPos(run) - 1, CurPos(run)}
              /\ run.delays = (CurPos(run) - 1) \div batchSize
              /\ Len(run.batches) = run.delays + 1
        /\ run.pc = "delay" =>
              /\ closed = 1..(run.i + batchSize)
              /\ run.fetched = [k \in 1..(run.i + batchSize) |-> k]
              /\ run.delays = run.i \div batchSize
              /\ run.i + batchSize < Len(run.regs)
        /\ (run.pc = "done" /\ run.summary.statusCode = 200 /\ NumEnabled >= 1) =>
              /\ closed = 1..NumEnabled
              /\ run.delays = Len(run.batches) - 1
              /\ run.delays = (NumEnabled - 1) \div batchSize

\* A run over seven vehicles, done after two delays.
C25_Witness ==
    /\ sched[1].pc = "done"
    /\ NumEnabled = 7
    /\ sched[1].batches = <<3, 3, 1>>
    /\ sched[1].delays = 2
    /\ Len(sched[1].log) = 7

\* C26 (SpecDispatch): once a run has attempted a push delivery for a
\* vehicle's detected update, the vehicle's record already carries the new
\* baseline and the pending flag.
C26_BaselineBeforePush ==
    \A r \in Runs :
        sched[r].attempts # <<>> =>
            /\ FindOne(TheReg).lastMotTestDate = sched[r].latest
            /\ FindOne(TheReg).hasUpdate

\* The four fields of a detected update.
UpdateFields(doc) ==
    <<doc.lastMotTestDate, doc.hasUpdate, doc.updateDetails, doc.updateDetectedAt>>

\* C27 (SpecFrame): the closing write of a check that found no update changes
\* nothing of the vehicle's record but lastCheckedDate, and that of a failed
\* check nothing but lastCheckedDate and lastCheckError: lastMotTestDate,
\* hasUpdate, updateDetails and updateDetectedAt stay as they are, also when
\* an update is pending. Those four fields change only in the step of a
\* detected update's write, which sets all four at once; and a run makes the
\* no-update write only when the upstream list is empty or its latest date
\* is not later than the baseline the run read.
C27_CheckedWriteFrame ==
    [][LET doc == notifications[TheReg][1]
           new == notifications'[TheReg][1]
       IN  /\ Len(notifications'[TheReg]) = 1
           /\ \A r \in Runs :
                Len(sched'[r].log) > Len(sched[r].log) =>
                    LET kind == sched'[r].log[Len(sched'[r].log)].kind
                    IN  /\ kind = "checked" =>
                              /\ new = [doc EXCEPT !.lastCheckedDate = "scheduled"]
                              /\ ~HasUpdate(sched[r].latest, CurReg(sched[r]).lastMotTestDate)
                        /\ kind = "error" =>
                              new = [doc EXCEPT !.lastCheckedDate = "scheduled",
                                                !.lastCheckError = TRUE]
                        /\ kind = "lost" => new = doc
                        /\ kind = "update" =>
                              /\ UpdateFields(new) =
                                    <<sched[r].latest, TRUE,
                                      Details(CurReg(sched[r]).lastMotTestDate, sched[r].latest),
                                      detections'[TheReg]>>
                              /\ HasUpdate(sched[r].latest, CurReg(sched[r]).lastMotTestDate)
           /\ UpdateFields(new) # UpdateFields(doc) =>
                 \E r \in Runs :
                    /\ Len(sched'[r].log) > Len(sched[r].log)
                    /\ sched'[r].log[Len(sched'[r].log)].kind = "update"]_vars

\* An update was pending when the run started; the run found nothing new
\* and its write left the pending update and its details in place.
C27_Witness ==
    /\ sched[1].pc = "done" /\ sched[1].log = <<[pos |-> 1, kind |-> "checked"]>>
    /\ FindOne(TheReg).lastCheckedDate = "scheduled"
    /\ FindOne(TheReg).hasUpdate
    /\ FindOne(TheReg).updateDetails = Details(1, 2)
    /\ FindOne(TheReg).updateDetectedAt = 0
    /\ FindOne(TheReg).lastMotTestDate = 2
    /\ ~FindOne(TheReg).lastCheckError

\* C28 (SpecClaimLive): a poll whose findOneAndUpdate is answered while the
\* vehicle's record has hasUpdate = true returns 200 with hasUpdate: true and
\* the record's updateDetails, which are those of the most recent detection
\* (their newDate is the record's baseline), and clears the flag; and a
\* pending update does not stay pending while poll requests are left: it is
\* claimed, or every poll request has ended.
C28_PendingIsClaimed ==
    /\ [][\A p \in Pollers :
            (/\ poll[p].pc = "read" /\ poll'[p].pc = "done"
             /\ poll'[p].resp.status = 200
             /\ HasRecord(TheReg) /\ FindOne(TheReg).hasUpdate) =>
                /\ poll'[p].resp.hasUpdate
                /\ poll'[p].resp.details = FindOne(TheReg).updateDetails
                /\ poll'[p].resp.details.newDate = FindOne(TheReg).lastMotTestDate
                /\ ~notifications'[TheReg][1].hasUpdate]_vars
    /\ (HasRecord(TheReg) /\ FindOne(TheReg).hasUpdate)
          ~> (\/ ~(HasRecord(TheReg) /\ FindOne(TheReg).hasUpdate)
              \/ \A p \in Pollers : poll[p].pc = "done")

\* Two detections, the second over the first's unclaimed update; the poll
\* that came next got the second's details, the one after it none.
C28_Witness ==
    /\ detections[TheReg] = 2
    /\ sched[1].pc = "done" /\ sched[2].pc = "done"
    /\ poll[1].pc = "done" /\ poll[1].resp.status = 200 /\ poll[1].resp.hasUpdate
    /\ poll[1].resp.details = Details(1, 2)
    /\ poll[2].pc = "done" /\ poll[2].resp.status = 200 /\ ~poll[2].resp.hasUpdate
    /\ poll[3].pc = "idle"
    /\ ~FindOne(TheReg).hasUpdate
    /\ FindOne(TheReg).lastMotTestDate = 2

\* C29 (SpecSerial): a dispatch loads exactly the subscriptions of its
\* registration that are active at that moment (none when the find fails)
\* and attempts delivery to loaded subscriptions only; so a subscription that
\* is inactive when a dispatch starts gets no attempt in it, and it becomes
\* active again only by a push subscribe. A dispatch that loads nothing ends
\* at once with sent = 0 and failed = 0 and no delivery attempt.
C29_OnlyActiveDevices ==
    [][/\ \A r \in Runs :
            /\ (sched[r].pc = "dispatch" /\ sched'[r].pc # "dispatch") =>
                  LET v == CurReg(sched[r]).registration
                      active == {d \in Devices : pushSubs[<<v, d>>] = "active"}
                      loaded == {sched'[r].loaded[n] : n \in 1..Len(sched'[r].loaded)}
                  IN  /\ loaded \in {active, {}}
                      /\ Len(sched'[r].loaded) = Cardinality(loaded)
                      /\ sched'[r].attempts = <<>>
                      /\ loaded = {} =>
                            /\ sched'[r].pc = "writeUpdate"
                            /\ sched'[r].sent = 0 /\ sched'[r].failed = 0
                            /\ pushCount' = pushCount
            /\ sched'[r].attempts # sched[r].attempts =>
                  \/ sched'[r].attempts = <<>>
                  \/ \E n \in 1..Len(sched[r].loaded) :
                        sched'[r].attempts = Append(sched[r].attempts, sched[r].loaded[n])
            /\ pushCount' # pushCount => \E q \in Runs : sched'[q].attempts # sched[q].attempts
       /\ \A key \in Vehicles \X Devices :
            (pushSubs[key] = "inactive" /\ pushSubs'[key] = "active") =>
                /\ sched' = sched
                /\ pushResp'[key] = PushSubscribed]_vars

\* Run 1 is over and left device 1's subscription deactivated; run 2's
\* dispatch for the next update found no active subscription and attempted
\* nothing.
C29_Witness ==
    /\ sched[1].pc = "done"
    /\ pushSubs[<<TheReg, 1>>] = "inactive"
    /\ pushCount = NoPushes
    /\ sched[2].pc = "writeUpdate"
    /\ sched[2].loaded = <<>> /\ sched[2].attempts = <<>>
    /\ sched[2].sent = 0 /\ sched[2].failed = 0

\* C30 (SpecLatest): getLatestMotTest returns null for an empty (or missing)
\* test list and otherwise a test of the list whose completedDate no test of
\* the list exceeds, in whatever order the list arrives.
C30_LatestIsMaximum ==
    latestMotTest # NotReturned =>
        IF motTests = <<>>
        THEN latestMotTest = Null
        ELSE /\ \E n \in 1..Len(motTests) : motTests[n] = latestMotTest
             /\ \A n \in 1..Len(motTests) : GetTime(motTests[n]) <= GetTime(latestMotTest)

\* The newest test is neither first nor last in the list, and it occurs twice.
C30_Witness ==
    /\ motTests = <<1, 3, 2, 3>>
    /\ latestMotTest = 3

\* C31: a connectToDatabase call constructs at most MAX_RETRIES + 1 = 4
\* clients, one per recursion level, and sleeps 1000, 2000 and 4000 ms
\* between them; only the failure of the fourth attempt makes it throw the
\* connection error, that failure always does, and a call that ended takes
\* no further step. A cached connection that fails its ping leaves the
\* cache in that step, the call goes on to connect a newly constructed
\* client, and the failed connection is never cached or returned again.
C31_BoundedAttempts ==
    /\ [](\A c \in Connectors :
            /\ conn[c].attempts <= MAX_RETRIES + 1
            /\ Len(conn[c].delays) = conn[c].retryCount \/ conn[c].pc = "delay"
            /\ Len(conn[c].delays) <= 3
            /\ conn[c].delays = SubSeq(<<1000, 2000, 4000>>, 1, Len(conn[c].delays))
            /\ (conn[c].pc \in {"connect", "command"} => conn[c].attempts = conn[c].retryCount + 1)
            /\ (conn[c].error = FailedToConnect =>
                    conn[c].attempts = 4 /\ conn[c].delays = <<1000, 2000, 4000>>)
            /\ \A k \in conn[c].failedPings : cachedDb # k /\ conn[c].result # k)
    /\ [][\A c \in Connectors :
            /\ (conn[c].pc \in {"returned", "threw"} => conn'[c] = conn[c])
            /\ (conn[c].pc \in {"connect", "command"} /\ conn[c].attempts = 4
                    => conn'[c].pc \in {"connect", "command", "returned", "threw"})
            /\ (conn[c].pc \in {"connect", "command"} /\ conn'[c].pc = "delay"
                    => Len(conn'[c].delays) = conn[c].attempts)
            /\ (conn'[c].failedPings # conn[c].failedPings =>
                    /\ cachedDb' = Null
                    /\ conn'[c].pc = "connect"
                    /\ conn'[c].client = clients'
                    /\ clients' > clients)]_vars

\* A call that found a cached connection, saw its ping fail and then gave
\* up after four failed attempts.
C31_Witness ==
    \E c \in Connectors :
        /\ conn[c].error = FailedToConnect
        /\ conn[c].failedPings = {1}
        /\ conn[c].attempts = 4

C33_CountsEachDeviceOnce ==
    \A r \in Runs :
        LET run == sched[r]
        IN  (/\ run.pc = "writeUpdate"
             /\ \A k \in 1..Len(run.outcomes) : run.outcomes[k] # "goneLost")
            => run.sent + run.failed = Len(run.loaded)

\* C34 (SpecDispatch): at every point of a run that has started its loop,
\* results.updated + results.errors <= results.checked <= results.total:
\* no vehicle is counted both as updated and as an error.
C34_CountersConsistent ==
    \A r \in Runs :
        LET results == sched[r].results
        IN  results # NoResults =>
                /\ results.updated + results.errors <= results.checked
                /\ results.checked <= results.total

\* C35 (Spec): once a disableNotification request for the vehicle has been
\* answered 200 and the vehicle has no record, no step of a scheduler run
\* delivers a push for it.
C35_NoPushAfterDisable ==
    [][(\E x \in Disablers : disable[x].status = 200) /\ ~HasRecord(TheReg)
          => pushCount' = pushCount]_vars

\* C36 (Spec): a step of a scheduler run taken while a registration has no
\* record leaves the registration without a record: the run's writes to a
\* vehicle that disableNotification deleted meanwhile do not re-create it.
C36_NoRecreate ==
    [][\A v \in Vehicles :
          (sched' # sched /\ ~HasRecord(v)) => notifications'[v] = <<>>]_vars

\* The run wrote a detected update for the vehicle after its record had
\* been deleted (the write matched nothing, so no detection is recorded),
\* and the vehicle still has no record.
C36_Witness ==
    /\ disable[1].status = 200
    /\ ~HasRecord(TheReg)
    /\ detections[TheReg] = 0
    /\ \E n \in 1..Len(sched[1].log) : sched[1].log[n].kind = "update"

\* C37 (SpecClaim): a poll that claims an update clears the flag of a
\* document whose hasUpdate is true and returns the updateDetails and the
\* updateDetectedAt that document holds at that instant, however its
\* findOne and its findOneAndUpdate interleave with detection writes; the
\* stamp it returns is that of the vehicle's latest detection write, so the
\* flag it clears was not set by a write later than the details it returns.
C37_ClaimReturnsStored ==
    [][\A p \in Pollers :
          (poll[p].pc = "read" /\ poll'[p].pc = "done" /\ poll'[p].resp.hasUpdate) =>
              LET doc == FindOne(TheReg)
              IN  /\ HasRecord(TheReg) /\ doc.hasUpdate
                  /\ ~notifications'[TheReg][1].hasUpdate
                  /\ poll'[p].resp.details = doc.updateDetails
                  /\ poll'[p].resp.updateDetectedAt = doc.updateDetectedAt
                  /\ poll'[p].resp.updateDetectedAt = detections[TheReg]]_vars

\* A poll read the record while the first detection was pending, a second
\* detection write came before its findOneAndUpdate, and its response has
\* the second detection's details and stamp.
C37_Witness ==
    \E p \in Pollers :
        /\ poll[p].pc = "done" /\ poll[p].resp.hasUpdate
        /\ poll[p].record.hasUpdate /\ poll[p].record.updateDetectedAt = 1
        /\ poll[p].resp.updateDetectedAt = 2
        /\ poll[p].resp.details = Details(1, 2)
        /\ detections[TheReg] = 2

\* C38 (SpecClient): once stopPolling or stopAll has stopped the polling
\* for a registration, and while it is not started again, no poll invokes
\* onUpdate or onPollComplete for it, also when its request was in flight
\* at the stop; and each registration has at most one interval timer that
\* is set and not cleared.
C38_StoppedMeansSilent ==
    /\ \A p \in DOMAIN polls : ~polls[p].afterStop
    /\ \A reg \in Regs : Cardinality({g \in live : started[g].reg = reg}) <= 1

====
